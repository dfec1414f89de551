------------------------------ MODULE OAuthFlow -----------------------------
(***************************************************************************)
(* The OAuth state between Connect and CompleteCallback (core/service.go)  *)
(* and the in-memory store that keeps it (core/oauth_state.go).            *)
(*                                                                         *)
(* Connect saves a record under the state it returns; a callback consumes  *)
(* it, compares it with the request, puts it back when they disagree, and  *)
(* otherwise exchanges the code.  Save and Consume are each one step under *)
(* the store's mutex; between them callbacks interleave.  A caller may     *)
(* choose the state itself, so a state can be saved more than once.        *)
(***************************************************************************)
EXTENDS Naturals, FiniteSets

CONSTANTS
    States,          \* state values
    Callbacks,       \* concurrent CompleteCallback calls
    OAuthScopes,     \* provider and scope of a request
    Redirects,       \* redirect URIs
    OAuthNone,       \* no redirect, no grants, no record
    RequireRedirect, \* config.OAuth.RequireCallbackRedirect
    OAuthTTL,        \* the store's ttl
    MaxOAuthEntries, \* the store's maxEntries
    MaxConnects,     \* bound: calls of Connect
    MaxOAuthClock    \* bound: the clock

ASSUME OAuthFlowAssumption ==
    /\ RequireRedirect \in BOOLEAN /\ OAuthNone \notin Redirects
    /\ OAuthTTL \in Nat \ {0} /\ MaxOAuthEntries \in Nat \ {0}
    /\ MaxConnects \in Nat /\ MaxOAuthClock \in Nat

VARIABLES
    oauthNow,     \* the clock
    oauthEntries, \* MemoryOAuthStateStore.entries: state -> record
    oauthAt,      \* oauthAt[c]: where callback c is
    connects,     \* how many records Connect has saved; each is numbered
    exchanges,    \* history: exchanges[n]: how often record n reached the strategy
    dropped,      \* history: records evicted at capacity or overwritten by a Save
    expired       \* history: records the store pruned after their expiry

oauthVars == <<oauthNow, oauthEntries, oauthAt, connects, exchanges, dropped, expired>>

Optional(S) == S \cup {OAuthNone}

Request == [state : States, scope : OAuthScopes, redirect : Optional(Redirects),
            strict : BOOLEAN]

\* A record is [id, scope, redirect, grants, exp]; `grants' stands for
\* RequestedGrants, told apart by who chose them.
OAuthIdle == [pc |-> "idle", req |-> OAuthNone, record |-> OAuthNone, sent |-> OAuthNone]

OAuthInit ==
    /\ oauthNow = 0 /\ oauthEntries = <<>> /\ connects = 0
    /\ oauthAt = [c \in Callbacks |-> OAuthIdle]
    /\ exchanges = [n \in 1 .. MaxConnects |-> 0]
    /\ dropped = {} /\ expired = {}

-----------------------------------------------------------------------------
(* The store.                                                              *)

Live(e) == {s \in DOMAIN e : oauthNow <= e[s].exp}

OAuthKeep(e, S) == [s \in S |-> e[s]]

Ids(e) == {e[s].id : s \in DOMAIN e}

\* enforceCapacityLocked: evict the earliest to expire until there is room; ties
\* fall to the map's order.
Room(e) ==
    LET excess == IF Cardinality(DOMAIN e) > MaxOAuthEntries - 1
                  THEN Cardinality(DOMAIN e) - (MaxOAuthEntries - 1) ELSE 0
    IN  {OAuthKeep(e, DOMAIN e \ V) : V \in {W \in SUBSET DOMAIN e :
            /\ Cardinality(W) = excess
            /\ \A w \in W, k \in DOMAIN e \ W : e[w].exp <= e[k].exp}}

Save(s, record) ==
    LET live == OAuthKeep(oauthEntries, Live(oauthEntries)) IN
    \E kept \in IF s \in DOMAIN live THEN {live} ELSE Room(live) :
        /\ oauthEntries' = [x \in DOMAIN kept \cup {s} |-> IF x = s THEN record ELSE kept[x]]
        /\ dropped' = dropped \cup (Ids(live) \ Ids(oauthEntries'))
        /\ expired' = expired \cup (Ids(oauthEntries) \ Ids(live))

\* Consume leaves the rest of the live entries.
Consumed_Kept(s) == oauthEntries' = OAuthKeep(oauthEntries, Live(oauthEntries))

Consumed(s) == oauthEntries' = OAuthKeep(oauthEntries, Live(oauthEntries) \ {s})

-----------------------------------------------------------------------------
\* Connect, with a generated or a chosen state; strategy.Begin has succeeded.
Connect(s, scope, redirect, grants) ==
    /\ connects < MaxConnects
    /\ connects' = connects + 1
    /\ Save(s, [id |-> connects + 1, scope |-> scope, redirect |-> redirect,
                grants |-> grants, exp |-> oauthNow + OAuthTTL])
    /\ UNCHANGED <<oauthNow, oauthAt, exchanges>>

OAuthGoto(c, pc, req, record, sent) ==
    oauthAt' = [oauthAt EXCEPT ![c] = [pc |-> pc, req |-> req, record |-> record, sent |-> sent]]

\* CompleteCallback up to Consume: the record, or "oauth state not found".
Consume(c, req) ==
    /\ oauthAt[c].pc = "idle"
    /\ Consumed(req.state)
    /\ expired' = expired \cup (Ids(oauthEntries) \ Ids(OAuthKeep(oauthEntries, Live(oauthEntries))))
    /\ IF req.state \in Live(oauthEntries)
       THEN OAuthGoto(c, "check", req, oauthEntries[req.state], OAuthNone)
       ELSE OAuthGoto(c, "refused", req, OAuthNone, OAuthNone)
    /\ UNCHANGED <<oauthNow, connects, exchanges, dropped>>

requireCallbackRedirect(req) == RequireRedirect \/ req.strict

Matches(req, record) ==
    /\ req.scope = record.scope
    /\ record.redirect # OAuthNone =>
         /\ req.redirect # OAuthNone => req.redirect = record.redirect
         /\ req.redirect = OAuthNone => ~requireCallbackRedirect(req)

\* restoreOnValidationFailure: the record goes back with its old expiry.
Restore(c) ==
    /\ oauthAt[c].pc = "check" /\ ~Matches(oauthAt[c].req, oauthAt[c].record)
    /\ Save(oauthAt[c].req.state, oauthAt[c].record)
    /\ OAuthGoto(c, "mismatch", OAuthNone, OAuthNone, OAuthNone)
    /\ UNCHANGED <<oauthNow, connects, exchanges>>

\* applyOAuthStateContext: what the request lacks comes from the record, and the
\* record's grants replace the request's.
applyOAuthStateContext(req, record) ==
    [scope |-> req.scope,
     redirect |-> IF req.redirect = OAuthNone THEN record.redirect ELSE req.redirect,
     grants |-> IF record.grants = OAuthNone THEN "request" ELSE record.grants]

\* strategy.Complete is called with the merged request.
OAuthExchange(c) ==
    /\ oauthAt[c].pc = "check" /\ Matches(oauthAt[c].req, oauthAt[c].record)
    /\ exchanges' = [exchanges EXCEPT ![oauthAt[c].record.id] = @ + 1]
    /\ OAuthGoto(c, "exchanged", OAuthNone, oauthAt[c].record,
                 applyOAuthStateContext(oauthAt[c].req, oauthAt[c].record))
    /\ UNCHANGED <<oauthNow, oauthEntries, connects, dropped, expired>>

OAuthTick ==
    /\ oauthNow < MaxOAuthClock /\ oauthNow' = oauthNow + 1
    /\ UNCHANGED <<oauthEntries, oauthAt, connects, exchanges, dropped, expired>>

OAuthFinished ==
    /\ \A c \in Callbacks : oauthAt[c].pc \in {"refused", "mismatch", "exchanged"}
    /\ UNCHANGED oauthVars

OAuthNext ==
    \/ \E s \in States, scope \in OAuthScopes, r \in Optional(Redirects),
          g \in {"connect", OAuthNone} : Connect(s, scope, r, g)
    \/ \E c \in Callbacks :
         \/ \E req \in Request : Consume(c, req)
         \/ Restore(c) \/ OAuthExchange(c)
    \/ OAuthTick
    \/ OAuthFinished

OAuthSpec == OAuthInit /\ [][OAuthNext]_oauthVars

-----------------------------------------------------------------------------
Held(n) == {c \in Callbacks : oauthAt[c].pc = "check" /\ oauthAt[c].record.id = n}

\* The store never holds more than maxEntries records, whatever the order of
\* saves, restores and expiries (enforceCapacityLocked counts the incoming one).
Bounded == Cardinality(DOMAIN oauthEntries) <= MaxOAuthEntries

\* A saved record authorizes one exchange: however callbacks, retries and
\* restores interleave, strategy.Complete is reached at most once per Connect,
\* and a record is never in two places that could both lead there.
ExchangedOnce ==
    \A n \in 1 .. connects :
        exchanges[n] + Cardinality(Held(n))
          + Cardinality({s \in DOMAIN oauthEntries : oauthEntries[s].id = n}) <= 1

\* Callbacks that do not match burn nothing: a record that was neither
\* exchanged, nor evicted or overwritten by another Save, nor pruned after its
\* expiry is in the store or in the hands of a callback that still checks it.
NothingLost ==
    \A n \in 1 .. connects :
        \/ exchanges[n] > 0 \/ n \in dropped \cup expired
        \/ Held(n) # {} \/ n \in Ids(oauthEntries)

\* What the strategy is asked to exchange is what the Connect that chose the
\* state recorded: its scope, its redirect and its grants, where it had them.
ExchangeBound ==
    \A c \in Callbacks : oauthAt[c].pc = "exchanged" =>
        /\ oauthAt[c].sent.scope = oauthAt[c].record.scope
        /\ oauthAt[c].record.redirect # OAuthNone => oauthAt[c].sent.redirect = oauthAt[c].record.redirect
        /\ oauthAt[c].record.grants # OAuthNone => oauthAt[c].sent.grants = oauthAt[c].record.grants

\* The record of a Connect is bounded in number, exchanged once at most, with what
\* it recorded, and otherwise lost only to eviction, overwriting and expiry.
RecordsAccounted == Bounded /\ ExchangedOnce /\ NothingLost /\ ExchangeBound
=============================================================================
