---------------------------- MODULE Subscriptions ---------------------------
(***************************************************************************)
(* Provider subscriptions: Subscribe, RenewSubscription and                *)
(* CancelSubscription of the service (core/service_subscriptions.go) over  *)
(* the SQL store (store/sql/subscription_store.go).  Each call talks to    *)
(* the provider between its read of the store and its write; the provider  *)
(* may answer a renewal with a new channel.                                *)
(*                                                                         *)
(* A channel is a number the provider issues; resources, URLs, expiry and  *)
(* metadata are left out, and a remote ID counts the renewals of a channel.*)
(***************************************************************************)
EXTENDS Integers, Sequences

CONSTANTS
    ChannelCallers,  \* concurrent callers of the service
    MaxChannels,     \* bound: how many channels the provider issues
    MaxCalls,        \* bound: how many calls are made
    MaxChannelFaults \* bound: how many store calls fail or callers stop

ASSUME SubscriptionsAssumption ==
    MaxChannels \in Nat /\ MaxCalls \in Nat /\ MaxChannelFaults \in Nat

VARIABLES
    channelRows,   \* service_subscriptions, in the order of insertion
    live,          \* the channels the provider delivers to
    remote,        \* remote[ch]: the provider's remote ID of an issued channel
    channelAt,     \* channelAt[c]: where caller c is
    calls,         \* how many calls have begun
    channelFaults, \* history: how many store calls failed or callers stopped
    astray,        \* history: channels touched by a fault, a race or a rotation
    unstored       \* history: channels whose own Upsert failed or was not reached

channelVars == <<channelRows, live, remote, channelAt, calls, channelFaults, astray, unstored>>

-----------------------------------------------------------------------------
ChannelStatuses == {"active", "errored", "cancelled"}

Channels == 1 .. MaxChannels

ChannelRow == [channel : Channels, remote : Nat, status : ChannelStatuses]

ChannelNoRow == [channel |-> 0, remote |-> 0, status |-> "active"]

\* A caller's locals: the row's index, the record read, the channel and remote
\* ID to store, and the status to set.
ChannelIdle == [pc |-> "idle", op |-> "subscribe", id |-> 0, rec |-> ChannelNoRow,
                channel |-> 0, remote |-> 0, status |-> "active"]

ChannelInit ==
    /\ channelRows = <<>>
    /\ live = {}
    /\ remote = <<>>
    /\ channelAt = [c \in ChannelCallers |-> ChannelIdle]
    /\ calls = 0 /\ channelFaults = 0
    /\ astray = {} /\ unstored = {}

ChannelGoto(c, locals) == channelAt' = [channelAt EXCEPT ![c] = locals]

Issue ==
    /\ Len(remote) < MaxChannels
    /\ remote' = Append(remote, 1)

ByChannel(ch) == {i \in DOMAIN channelRows : channelRows[i].channel = ch}

Busy(c, ch) == \E o \in ChannelCallers \ {c} : channelAt[o].rec.channel = ch \/ channelAt[o].channel = ch

-----------------------------------------------------------------------------
\* Subscribe: the connection exists and its provider is subscribable.  The
\* provider opens a channel; an error leaves nothing anywhere.
Subscribe(c) ==
    /\ channelAt[c].pc = "idle" /\ calls < MaxCalls /\ calls' = calls + 1
    /\ Issue
    /\ live' = live \cup {Len(remote')}
    /\ ChannelGoto(c, [ChannelIdle EXCEPT !.pc = "upsert", !.channel = Len(remote'), !.remote = 1])
    /\ UNCHANGED <<channelRows, channelFaults, astray, unstored>>

\* RenewSubscription and CancelSubscription begin with store.Get.
Read(c, op, i) ==
    /\ channelAt[c].pc = "idle" /\ calls < MaxCalls /\ calls' = calls + 1
    /\ ChannelGoto(c, [ChannelIdle EXCEPT !.pc = "provider", !.op = op, !.id = i, !.rec = channelRows[i]])
    /\ astray' = IF Busy(c, channelRows[i].channel) THEN astray \cup {channelRows[i].channel} ELSE astray
    /\ UNCHANGED <<channelRows, live, remote, channelFaults, unstored>>

\* The provider renews the channel in place (with an empty channel ID in its
\* answer, the stored one is kept) or replaces it.
RenewInPlace(c) ==
    LET ch == channelAt[c].rec.channel IN
    /\ channelAt[c].pc = "provider" /\ channelAt[c].op = "renew"
    /\ remote' = [remote EXCEPT ![ch] = @ + 1]
    /\ live' = live \cup {ch}
    /\ ChannelGoto(c, [channelAt[c] EXCEPT !.pc = "upsert", !.channel = ch, !.remote = remote'[ch]])
    /\ UNCHANGED <<channelRows, calls, channelFaults, astray, unstored>>

RenewElsewhere_OldChannel(c) ==
    LET ch == channelAt[c].rec.channel IN
    /\ channelAt[c].pc = "provider" /\ channelAt[c].op = "renew"
    /\ Issue
    /\ live' = (live \ {ch}) \cup {Len(remote')}
    /\ ChannelGoto(c, [channelAt[c] EXCEPT !.pc = "upsert", !.channel = ch, !.remote = 1])
    /\ astray' = astray \cup {ch}
    /\ UNCHANGED <<channelRows, calls, channelFaults, unstored>>

RenewElsewhere(c) ==
    LET ch == channelAt[c].rec.channel IN
    /\ channelAt[c].pc = "provider" /\ channelAt[c].op = "renew"
    /\ Issue
    /\ live' = (live \ {ch}) \cup {Len(remote')}
    /\ ChannelGoto(c, [channelAt[c] EXCEPT !.pc = "upsert", !.channel = Len(remote'), !.remote = 1])
    /\ astray' = astray \cup {ch}
    /\ UNCHANGED <<channelRows, calls, channelFaults, unstored>>

\* The provider cancels the channel.
CancelRemote(c) ==
    /\ channelAt[c].pc = "provider" /\ channelAt[c].op = "cancel"
    /\ live' = live \ {channelAt[c].rec.channel}
    /\ ChannelGoto(c, [channelAt[c] EXCEPT !.pc = "state", !.status = "cancelled"])
    /\ UNCHANGED <<channelRows, remote, calls, channelFaults, astray, unstored>>

\* The provider refuses a renewal or a cancellation.
Refuse(c) ==
    /\ channelAt[c].pc = "provider"
    /\ ChannelGoto(c, [channelAt[c] EXCEPT !.pc = "state", !.status = "errored"])
    /\ UNCHANGED <<channelRows, live, remote, calls, channelFaults, astray, unstored>>

\* Upsert: one transaction that finds the row by provider and channel and
\* overwrites it as active, or inserts it (the channel is unique).  It writes
\* nothing it has read, so it is one step.
ChannelUpsert(c) ==
    LET ch == channelAt[c].channel
        new == [channel |-> ch, remote |-> channelAt[c].remote, status |-> "active"]
    IN
    /\ channelAt[c].pc = "upsert"
    /\ IF ByChannel(ch) = {}
       THEN channelRows' = Append(channelRows, new)
       ELSE channelRows' = [i \in DOMAIN channelRows |-> IF i \in ByChannel(ch) THEN new ELSE channelRows[i]]
    /\ ChannelGoto(c, ChannelIdle)
    /\ UNCHANGED <<live, remote, calls, channelFaults, astray, unstored>>

\* UpdateState reads the row again and later writes all of it back.
StateRead(c) ==
    /\ channelAt[c].pc = "state"
    /\ ChannelGoto(c, [channelAt[c] EXCEPT !.pc = "write",
                                           !.rec = [channelRows[channelAt[c].id] EXCEPT !.status = channelAt[c].status]])
    /\ UNCHANGED <<channelRows, live, remote, calls, channelFaults, astray, unstored>>

StateWrite(c) ==
    /\ channelAt[c].pc = "write"
    /\ channelRows' = [channelRows EXCEPT ![channelAt[c].id] = channelAt[c].rec]
    /\ ChannelGoto(c, ChannelIdle)
    /\ UNCHANGED <<live, remote, calls, channelFaults, astray, unstored>>

\* A store call fails or the caller stops.  Only a caller that is at Upsert has
\* been given a channel to store.
Abandon(c) ==
    /\ channelAt[c].pc # "idle" /\ channelFaults < MaxChannelFaults /\ channelFaults' = channelFaults + 1
    /\ astray' = astray \cup {ch \in Channels : ch \in {channelAt[c].rec.channel, channelAt[c].channel}}
    /\ unstored' = unstored \cup {ch \in Channels : ch = channelAt[c].channel}
    /\ ChannelGoto(c, ChannelIdle)
    /\ UNCHANGED <<channelRows, live, remote, calls>>

ChannelNext ==
    \E c \in ChannelCallers :
       \/ Subscribe(c)
       \/ \E op \in {"renew", "cancel"}, i \in DOMAIN channelRows : Read(c, op, i)
       \/ RenewInPlace(c) \/ RenewElsewhere(c) \/ CancelRemote(c) \/ Refuse(c)
       \/ ChannelUpsert(c) \/ StateRead(c) \/ StateWrite(c) \/ Abandon(c)

ChannelSpec == ChannelInit /\ [][ChannelNext]_channelVars

-----------------------------------------------------------------------------
(* Properties.                                                              *)

\* Rows hold issued channels, one row per channel (uq on provider and
\* channel), whatever renewals, cancels and stale state updates did.
OneRowPerChannel ==
    /\ channelRows \in Seq(ChannelRow)
    /\ \A i, j \in DOMAIN channelRows : channelRows[i].channel = channelRows[j].channel => i = j
    /\ \A i \in DOMAIN channelRows : channelRows[i].channel \in DOMAIN remote

\* Every channel the provider delivers to has a row, so that its webhooks can
\* be attributed, or a call is about to store it, or the Upsert of that very
\* channel failed: a renewal that changes the channel does not lose it, and a
\* fault loses no channel but the one it happens to.
LiveChannelsKnown ==
    \A ch \in live :
       \/ ByChannel(ch) # {}
       \/ \E c \in ChannelCallers : channelAt[c].channel = ch
       \/ ch \in unstored

\* A channel that no fault, race or rotation has touched is in step with the
\* provider whenever no call is under way on it: active rows are delivered
\* to, cancelled ones are not, and the remote ID is the provider's.
InStepAlone ==
    \A i \in DOMAIN channelRows :
       LET ch == channelRows[i].channel IN
       ch \notin astray /\ (\A c \in ChannelCallers : channelAt[c].rec.channel # ch /\ channelAt[c].channel # ch) =>
          /\ channelRows[i].status = "active" => ch \in live
          /\ channelRows[i].status = "cancelled" => ch \notin live
          /\ channelRows[i].status # "cancelled" => channelRows[i].remote = remote[ch]

\* Subscribe, renew and cancel keep track of the channels the provider delivers to.
ChannelsTracked == OneRowPerChannel /\ LiveChannelsKnown /\ InStepAlone
=============================================================================
