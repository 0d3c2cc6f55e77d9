------------------------------- MODULE AccessKeys -------------------------------
(***************************************************************************)
(* The API keys of one tenant and the tokens issued from them: issue,      *)
(* rotate, revoke, revoke-tokens, and the exchange of a key for a token,   *)
(* as concurrent READ COMMITTED transactions.                              *)
(*                                                                         *)
(* A request reads, then updates its row (and waits for another            *)
(* transaction's update of it), then appends to the ledger and commits.    *)
(* An UPDATE writes the columns the request changed and no others.  Every  *)
(* reading of the clock is later than the one before; a token keeps its    *)
(* time of issue in milliseconds, of which Tick readings are one.          *)
(* Left out: the expiry of tokens, which only ends them sooner, and the    *)
(* ledger's lock, which is taken last (LedgerAppend).                      *)
(***************************************************************************)
EXTENDS Naturals, FiniteSets

CONSTANTS
  KeyRequest,   \* slots for requests in progress
  MaxKeys,      \* bound: keys ever issued
  MaxTime,      \* bound: the last reading of the clock
  MaxTokens,    \* bound: tokens handed out
  Tick          \* readings of the clock within one millisecond

ASSUME AccessKeysAssumption ==
  /\ MaxKeys \in Nat \ {0} /\ Tick \in Nat \ {0}
  /\ MaxTime \in Nat /\ MaxTokens \in Nat

VARIABLES
  keys,      \* committed rows of api_keys
  request,   \* what each request knows
  tokens,    \* tokens handed out, with the true time of issue
  now,       \* the last reading of the clock
  line,      \* history: the key a key descends from by rotation
  endedAt,   \* history: when the tokens of a key were last revoked, by commit
  raced,     \* history: keys of which two revocations of tokens overlapped
  overlapped \* history: two rotations or revocations overlapped

keysVars == <<keys, request, tokens, now, line, endedAt, raced, overlapped>>

Key == 1..MaxKeys
NoKey == 0
KeyRow == [status : {"none", "active", "revoked"}, admin : BOOLEAN, notBefore : 0..MaxTime]
Token == [key : Key, issuedAt : 0..MaxTime, minted : 1..MaxTime]

Idle == [pc |-> "idle", op |-> "issue", target |-> NoKey, fresh |-> NoKey, admin |-> FALSE,
         stamp |-> 0]

KeysTypeOK ==
  /\ keys \in [Key -> KeyRow]
  /\ request \in [KeyRequest ->
       [ pc : {"idle", "update", "commit", "mint"},
         op : {"issue", "rotate", "revoke", "end", "exchange"},
         target : Key \cup {NoKey}, fresh : Key \cup {NoKey}, admin : BOOLEAN,
         stamp : 0..MaxTime ]]
  /\ tokens \subseteq Token
  /\ now \in 0..MaxTime
  /\ line \in [Key -> Key]
  /\ endedAt \in [Key -> 0..MaxTime]
  /\ raced \subseteq Key
  /\ overlapped \in BOOLEAN

-----------------------------------------------------------------------------
Standing(k) == keys[k].status = "active"
StandingAdmins == {k \in Key : Standing(k) /\ keys[k].admin}

\* A new row gets an id nobody has, committed or not.
Unused == {k \in Key : keys[k].status = "none" /\ \A r \in KeyRequest : request[r].fresh # k}
Lowest(S) == CHOOSE k \in S : \A j \in S : k <= j

\* _check_token_key: what the API does with a token that is presented now.
Accepts(t) == Standing(t.key) /\ ~(t.issuedAt < keys[t.key].notBefore)

\* Mutant of Milliseconds: rounded up.
MillisecondsUp(time) == IF time % Tick = 0 THEN time ELSE time - (time % Tick) + Tick

\* mint(): the time of issue is cut to milliseconds.
Milliseconds(time) == time - (time % Tick)

\* _would_remove_last_admin, on the rows listed.
WouldRemoveLastAdmin(k) == StandingAdmins = {k}

\* Requests that may take an admin key away, now in progress.
Removing(r) == request[r].pc # "idle" /\ request[r].op \in {"rotate", "revoke"}
Ending(r, k) == request[r].pc # "idle" /\ request[r].op = "end" /\ request[r].target = k

-----------------------------------------------------------------------------
\* provision_tenant: the tenant starts with one ADMIN key.
KeysInit ==
  /\ keys = [k \in Key |-> [status |-> IF k = 1 THEN "active" ELSE "none",
                            admin |-> k = 1, notBefore |-> 0]]
  /\ request = [r \in KeyRequest |-> Idle]
  /\ tokens = {}
  /\ now = 0
  /\ line = [k \in Key |-> k]
  /\ endedAt = [k \in Key |-> 0]
  /\ raced = {}
  /\ overlapped = FALSE

\* principal and AdminDep: an ADMIN key that stands, or a token of one, is presented.
\* The request reads the clock: for created_at, revoked_at or not_before.
BeginKeyRequest(r, memory) ==
  /\ request[r] = Idle
  /\ StandingAdmins # {}
  /\ now < MaxTime /\ now' = now + 1
  /\ request' = [request EXCEPT ![r] = memory]
  /\ UNCHANGED <<keys, tokens, line, endedAt>>

\* The history of two removals at once.
NoteRemoval(r) ==
  overlapped' = (overlapped \/ \E q \in KeyRequest \ {r} : Removing(q))

\* create_key: the row is inserted; nothing is waited for.
BeginIssue(r, admin) ==
  /\ Unused # {}
  /\ BeginKeyRequest(r, [Idle EXCEPT !.pc = "commit", !.fresh = Lowest(Unused), !.admin = admin])
  /\ UNCHANGED <<raced, overlapped>>

\* rotate_key: the old key must be active; its replacement is inserted first.
BeginRotate(r, k) ==
  /\ Standing(k) /\ Unused # {}
  /\ BeginKeyRequest(r, [Idle EXCEPT !.pc = "update", !.op = "rotate", !.target = k,
                           !.fresh = Lowest(Unused), !.admin = keys[k].admin])
  /\ NoteRemoval(r)
  /\ UNCHANGED raced

\* revoke_key: the keys are listed to see whether this is the last ADMIN key.
BeginRevoke(r, k) ==
  /\ keys[k].status # "none"
  /\ ~WouldRemoveLastAdmin(k)
  /\ BeginKeyRequest(r, [Idle EXCEPT !.pc = "update", !.op = "revoke", !.target = k])
  /\ NoteRemoval(r)
  /\ UNCHANGED raced

\* revoke_key_tokens: not_before is read from the clock before the row is updated.
BeginEndTokens(r, k) ==
  /\ keys[k].status # "none"
  /\ BeginKeyRequest(r, [Idle EXCEPT !.pc = "update", !.op = "end", !.target = k, !.stamp = now + 1])
  /\ raced' = IF \E q \in KeyRequest \ {r} : Ending(q, k) THEN raced \cup {k} ELSE raced
  /\ UNCHANGED overlapped

\* The UPDATE of the row waits for a transaction that has updated it.
UpdateRow(r) ==
  /\ request[r].pc = "update"
  /\ \A q \in KeyRequest \ {r} :
       ~(request[q].pc = "commit" /\ request[q].target = request[r].target)
  /\ request' = [request EXCEPT ![r].pc = "commit"]
  /\ UNCHANGED <<keys, tokens, now, line, endedAt, raced, overlapped>>

\* Mutant of Written: revoke-tokens writes the whole row, as active as when it was read.
WrittenWhole(r, k) ==
  LET m == request[r] IN
  CASE k = m.fresh -> [status |-> "active", admin |-> m.admin, notBefore |-> 0]
    [] k = m.target /\ m.op \in {"rotate", "revoke"} -> [keys[k] EXCEPT !.status = "revoked"]
    [] k = m.target /\ m.op = "end" ->
         [keys[k] EXCEPT !.notBefore = m.stamp, !.status = "active"]
    [] OTHER -> keys[k]

\* What a request's transaction leaves in row k.
Written(r, k) ==
  LET m == request[r] IN
  CASE k = m.fresh -> [status |-> "active", admin |-> m.admin, notBefore |-> 0]
    [] k = m.target /\ m.op \in {"rotate", "revoke"} -> [keys[k] EXCEPT !.status = "revoked"]
    [] k = m.target /\ m.op = "end" -> [keys[k] EXCEPT !.notBefore = m.stamp]
    [] OTHER -> keys[k]

\* _record_access_event, and the commit of session().
CommitKeys(r) ==
  LET m == request[r] IN
  /\ m.pc = "commit"
  /\ keys' = [k \in Key |-> Written(r, k)]
  /\ request' = [request EXCEPT ![r] = Idle]
  /\ line' = IF m.op = "rotate" THEN [line EXCEPT ![m.fresh] = line[m.target]] ELSE line
  /\ endedAt' = IF m.op = "end" /\ m.stamp > endedAt[m.target]
                THEN [endedAt EXCEPT ![m.target] = m.stamp] ELSE endedAt
  /\ UNCHANGED <<tokens, now, raced, overlapped>>

\* The request fails or its process dies: the transaction is rolled back.
FailKeys(r) ==
  /\ request[r].pc # "idle"
  /\ request' = [request EXCEPT ![r] = Idle]
  /\ UNCHANGED <<keys, tokens, now, line, endedAt, raced, overlapped>>

\* exchange_key_for_token: the key is resolved in one transaction ...
Resolve(r, k) ==
  /\ request[r] = Idle
  /\ Standing(k) /\ Cardinality(tokens) < MaxTokens
  /\ request' = [request EXCEPT ![r] = [Idle EXCEPT !.pc = "mint", !.op = "exchange",
                                                    !.target = k]]
  /\ UNCHANGED <<keys, tokens, now, line, endedAt, raced, overlapped>>

\* ... and the token minted after it.
Mint(r) ==
  /\ request[r].pc = "mint"
  /\ now < MaxTime /\ now' = now + 1
  /\ tokens' = tokens \cup {[ key |-> request[r].target, minted |-> now',
                              issuedAt |-> Milliseconds(now') ]}
  /\ request' = [request EXCEPT ![r] = Idle]
  /\ UNCHANGED <<keys, line, endedAt, raced, overlapped>>

ProceedKeys(r) == UpdateRow(r) \/ CommitKeys(r)

KeysNext ==
  \E r \in KeyRequest :
    \/ \E admin \in BOOLEAN : BeginIssue(r, admin)
    \/ \E k \in Key : BeginRotate(r, k) \/ BeginRevoke(r, k) \/ BeginEndTokens(r, k)
                      \/ Resolve(r, k)
    \/ UpdateRow(r) \/ CommitKeys(r) \/ Mint(r) \/ FailKeys(r)

\* A transaction in progress goes on; a row is granted in the order it was asked for.
KeysFairness == \A r \in KeyRequest : SF_keysVars(ProceedKeys(r))

KeysSpec == KeysInit /\ [][KeysNext]_keysVars /\ KeysFairness

-----------------------------------------------------------------------------
\* A key that has been revoked or rotated away never stands again, and neither do its
\* tokens, whatever requests are in flight.
RevokedStaysRevoked ==
  [][\A k \in Key : keys[k].status = "revoked" => keys'[k].status = "revoked"]_keysVars

\* "End every token already issued from this key": a token minted before its key's
\* tokens were revoked is refused from the commit on, milliseconds or not, unless two
\* such requests on the key overlapped.
EndedTokensStayRefused ==
  \A t \in tokens : t.key \notin raced /\ t.minted < endedAt[t.key] => ~Accepts(t)

\* "The last active ADMIN key cannot be revoked", as long as rotations and revocations
\* do not overlap.
SerialAdminRemains == ~overlapped => StandingAdmins # {}

\* "The last active ADMIN key cannot be revoked" (README).
AdminRemains == StandingAdmins # {}

\* A rotated key is replaced by one key: of a line of replacements at most one stands, as
\* long as rotations and revocations do not overlap.
SerialOneOfALine ==
  ~overlapped =>
    \A j, k \in Key : Standing(j) /\ Standing(k) /\ line[j] = line[k] => j = k

\* Every transaction on keys ends: no two wait for each other's rows.
KeyRequestsEnd ==
  \A r \in KeyRequest : request[r].pc \in {"update", "commit"}
                          ~> request[r].pc \notin {"update", "commit"}

\* Keys: tokens that were ended stay so, and as long as no two requests overlap there is an
\* administrator left and one key to a line.
KeysKeepTheirPromise ==
  /\ KeysTypeOK /\ EndedTokensStayRefused /\ SerialAdminRemains /\ SerialOneOfALine

=============================================================================
