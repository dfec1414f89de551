-------------------------- MODULE SecretProviders --------------------------
(***************************************************************************)
(* The secret providers (security/*.go) and the credential rows encrypted  *)
(* with them (encryptCredentialPayload, core/service.go): app-key, KMS and *)
(* Vault providers, the failover provider over two of them, and instances  *)
(* of the service deployed with one configuration after another while      *)
(* credentials are written and read.                                       *)
(*                                                                         *)
(* A ciphertext is its envelope; the ciphers, and the KMS and Vault        *)
(* clients, are external: a client may fail at any call.                   *)
(***************************************************************************)
EXTENDS Integers, Sequences, FiniteSets

CONSTANTS
    Instances, Writers,
    Deployments, \* sequence of [primary, fallback, policy]; fallback may be Unset
    LegacyRows,  \* rows from before envelopes had a prefix or associated data
    SecretUnset, \* an absent value
    MaxClock, MaxRows \* bounds

ASSUME SecretProvidersAssumption ==
    /\ Deployments \in Seq({Deployments[d] : d \in DOMAIN Deployments}) /\ Deployments # <<>>
    /\ \A d \in DOMAIN Deployments :
          Deployments[d].policy = "fallback_allowed" => Deployments[d].fallback # SecretUnset

VARIABLES
    secretClock,
    dep,        \* dep[i]: the deployment instance i runs
    last,       \* last[i]: FailoverSecretProvider.lastEncryption of instance i
    secretAt,   \* secretAt[w]: a credential being encrypted
    secretRows, \* the stored credentials [env, key, ver, dep, raced]
    read        \* the outcome of the latest read, or Unset

secretVars == <<secretClock, dep, last, secretAt, secretRows, read>>

\* A provider is [alg, key, ver, allowed, any, legacy, windows]: allowed are the
\* versions it decrypts besides its own, windows[v] the rotation window of a
\* version that has one.
Allows(window, now) == window.from <= now /\ now <= window.to

rotationWindowAllows(p, ver, now) == ver \in DOMAIN p.windows => Allows(p.windows[ver], now)

\* Whether a call can succeed when the client does.
CanEncrypt(p, now) == rotationWindowAllows(p, p.ver, now)

encodeEnvelope(p) ==
    [prefix |-> TRUE, alg |-> p.alg, key |-> p.key, ver |-> p.ver, aad |-> TRUE]

\* AppKeySecretProvider.Decrypt; gcm.Open succeeds with the associated data the
\* ciphertext was sealed with, and a legacy provider tries without it too.
AppKeyDecrypt(p, env) ==
    LET named == env.key # SecretUnset /\ env.ver > 0 IN
    /\ env.prefix \/ p.legacy
    /\ env.alg \in {p.alg, SecretUnset}
    /\ named \/ p.legacy
    /\ env.key \in {p.key, SecretUnset} /\ env.ver \in {p.ver, 0}
    /\ env.aad = named \/ (p.legacy /\ ~env.aad)

\* KMSSecretProvider.Decrypt and VaultSecretProvider.Decrypt.
ManagedDecrypt(p, env, now) ==
    /\ env.prefix /\ env.alg \in {p.alg, SecretUnset} /\ env.key # SecretUnset /\ env.ver > 0
    /\ p.any \/ (env.key = p.key /\ env.ver \in p.allowed \cup {p.ver})
    /\ rotationWindowAllows(p, env.ver, now)

Decrypts(p, env, now) ==
    /\ p # SecretUnset
    /\ IF p.alg = "aes-256-gcm" THEN AppKeyDecrypt(p, env) ELSE ManagedDecrypt(p, env, now)

\* FailoverSecretProvider.Decrypt.
FailoverDecrypt_PrimaryOnly(d, env, now) == Decrypts(d.primary, env, now)

FailoverDecrypt(d, env, now) ==
    \/ Decrypts(d.primary, env, now)
    \/ d.policy = "fallback_allowed" /\ Decrypts(d.fallback, env, now)

-----------------------------------------------------------------------------
Metadata(p) == <<p.key, p.ver>>
\* raced is history: lastEncryption was set by another between record and save.
SecretIdle == [pc |-> "idle", inst |-> SecretUnset, by |-> SecretUnset, env |-> SecretUnset, raced |-> FALSE]

SecretInit ==
    /\ secretClock = 1 /\ dep = [i \in Instances |-> 1]
    /\ last = [i \in Instances |-> Metadata(Deployments[1].primary)]
    /\ secretAt = [w \in Writers |-> SecretIdle] /\ secretRows = LegacyRows /\ read = SecretUnset

SecretTick ==
    /\ secretClock < MaxClock /\ secretClock' = secretClock + 1
    /\ UNCHANGED <<dep, last, secretAt, secretRows, read>>

\* An instance is replaced by one with the next configuration.
Deploy(i) ==
    /\ dep[i] < Len(Deployments) /\ \A w \in Writers : secretAt[w].inst # i
    /\ dep' = [dep EXCEPT ![i] = @ + 1]
    /\ last' = [last EXCEPT ![i] = Metadata(Deployments[dep[i] + 1].primary)]
    /\ UNCHANGED <<secretClock, secretAt, secretRows, read>>

\* encryptCredentialPayload.
Begin(w, i) ==
    /\ secretAt[w].pc = "idle" /\ Cardinality(secretRows) < MaxRows
    /\ secretAt' = [secretAt EXCEPT ![w] = [SecretIdle EXCEPT !.pc = "primary", !.inst = i]]
    /\ UNCHANGED <<secretClock, dep, last, secretRows, read>>

Encrypted(w, p) ==
    /\ CanEncrypt(p, secretClock)
    /\ secretAt' = [secretAt EXCEPT ![w].pc = "record", ![w].by = p, ![w].env = encodeEnvelope(p)]

\* An app key needs no client and does not fail.
SecretFailed(p) == p.alg # "aes-256-gcm"

Primary(w) ==
    /\ secretAt[w].pc = "primary"
    /\ LET d == Deployments[dep[secretAt[w].inst]] IN
       \/ Encrypted(w, d.primary)
       \/ /\ SecretFailed(d.primary)
          /\ secretAt' = [secretAt EXCEPT ![w] =
                            IF d.policy = "strict_fail" \/ d.fallback = SecretUnset THEN SecretIdle
                            ELSE [secretAt[w] EXCEPT !.pc = "fallback"]]
    /\ UNCHANGED <<secretClock, dep, last, secretRows, read>>

Fallback(w) ==
    /\ secretAt[w].pc = "fallback"
    /\ LET p == Deployments[dep[secretAt[w].inst]].fallback IN
       \/ Encrypted(w, p)
       \/ SecretFailed(p) /\ secretAt' = [secretAt EXCEPT ![w] = SecretIdle]
    /\ UNCHANGED <<secretClock, dep, last, secretRows, read>>

Recorded(w) ==
    secretAt' = [u \in Writers |->
              IF u = w THEN [secretAt[w] EXCEPT !.pc = "save"]
              ELSE IF secretAt[u].pc = "save" /\ secretAt[u].inst = secretAt[w].inst
              THEN [secretAt[u] EXCEPT !.raced = TRUE] ELSE secretAt[u]]

RecordMetadata(w) ==
    /\ secretAt[w].pc = "record"
    /\ last' = [last EXCEPT ![secretAt[w].inst] = Metadata(secretAt[w].by)]
    /\ Recorded(w)
    /\ UNCHANGED <<secretClock, dep, secretRows, read>>

\* The key id and version come from Metadata, in a call of its own.
SecretSave(w) ==
    /\ secretAt[w].pc = "save"
    /\ secretRows' = secretRows \cup {[env |-> secretAt[w].env, key |-> last[secretAt[w].inst][1],
                                       ver |-> last[secretAt[w].inst][2], dep |-> dep[secretAt[w].inst],
                                       raced |-> secretAt[w].raced]}
    /\ secretAt' = [secretAt EXCEPT ![w] = SecretIdle]
    /\ UNCHANGED <<secretClock, dep, last, read>>

\* A read on instance i, with clients that answer.
Read(i, row) ==
    /\ read' = [row |-> row, dep |-> dep[i], at |-> secretClock,
                ok |-> FailoverDecrypt(Deployments[dep[i]], row.env, secretClock)]
    /\ UNCHANGED <<secretClock, dep, last, secretAt, secretRows>>

SecretNext ==
    \/ SecretTick
    \/ \E i \in Instances : Deploy(i) \/ \E row \in secretRows : Read(i, row)
    \/ \E w \in Writers : \/ \E i \in Instances : Begin(w, i)
                          \/ Primary(w) \/ Fallback(w) \/ RecordMetadata(w) \/ SecretSave(w)

SecretSpec == SecretInit /\ [][SecretNext]_secretVars

-----------------------------------------------------------------------------
\* The providers that a deployment encrypts with, and those it decrypts with.
Encryptors(n) ==
    {Deployments[n].primary} \cup
    IF Deployments[n].policy # "strict_fail" /\ Deployments[n].fallback # SecretUnset
    THEN {Deployments[n].fallback} ELSE {}

Decryptors(n) ==
    {Deployments[n].primary} \cup
    IF Deployments[n].policy = "fallback_allowed" THEN {Deployments[n].fallback} ELSE {}

\* Provider q knows the key of provider p.
KnowsKey(q, p) ==
    /\ q # SecretUnset /\ q.alg = p.alg
    /\ IF q.alg = "aes-256-gcm" THEN q.key = p.key /\ q.ver = p.ver
       ELSE q.any \/ (p.key = q.key /\ p.ver \in q.allowed \cup {q.ver})

\* The deployments that keep their keys: each can decrypt with some provider
\* what it or an earlier one encrypted, and the rows from before there were
\* envelopes.
KeysKept ==
    /\ \A m, n \in DOMAIN Deployments : n >= m =>
          \A p \in Encryptors(m) :
             /\ p.key # SecretUnset /\ p.ver > 0
             /\ \E q \in Decryptors(n) : KnowsKey(q, p)
    /\ \A row \in LegacyRows, n \in DOMAIN Deployments : n >= row.dep =>
          \E q \in Decryptors(n) :
             q # SecretUnset /\ q.alg = "aes-256-gcm" /\ AppKeyDecrypt(q, row.env)

\* A credential that was stored is read by every instance whose deployment is at
\* least as recent as the writer's, unless the window of its key has closed:
\* legacy ciphertexts, rows of an earlier provider and rows written by the
\* fallback included.
StillDecrypts ==
    read # SecretUnset =>
        (read.dep >= read.row.dep =>
            \/ read.ok
            \/ \E p \in {Deployments[read.dep].primary, Deployments[read.dep].fallback} :
                  p # SecretUnset /\ p.alg = read.row.env.alg
                  /\ read.row.env.ver \in DOMAIN p.windows
                  /\ ~(p.windows[read.row.env.ver].from <= read.at /\ read.at <= p.windows[read.row.env.ver].to))

\* The key id and version stored beside a ciphertext are those of its envelope,
\* also when the fallback encrypted it, unless another encryption of the same
\* instance finished between this one and its call of Metadata.
RecordedKeyMatches ==
    \A row \in secretRows \ LegacyRows :
        ~row.raced => row.key = row.env.key /\ row.ver = row.env.ver

\* What is stored stays readable across deployments and names its key.
StoredStaysReadable == StillDecrypts /\ RecordedKeyMatches
=============================================================================
