----------------------------- MODULE WriteGate -----------------------------
(***************************************************************************)
(* RWA-1, the read/write authority of soe_ddci/rwa.py: a gate that holds   *)
(* one digest per target and lets a write through only with a capability   *)
(* minted for the digest the write replaces.                               *)
(*                                                                         *)
(* Several writers use one gate.  A writer observes the digest of a target *)
(* (current_hash), some issuer mints a capability (make_capability), and   *)
(* later the writer submits a WriteRequest that names what it observed.    *)
(* Digests are members of State; an HMAC tag is modelled by what it is     *)
(* computed from, the key and the digest it signs.                         *)
(***************************************************************************)
EXTENDS Naturals, Sequences, FiniteSets, FiniteSetsExt

CONSTANTS
  Writer,      \* the gate's clients
  Target,      \* names of pieces of state
  NoTarget,    \* the empty string as a target
  AnyTarget,   \* "*" as a capability's target or scope
  State,       \* digests of payloads
  EmptyState,  \* canonical_hash({}), the digest of a target never written
  NoState,     \* the empty string as a parent state
  Key,         \* HMAC keys
  GateKey,     \* the key of the gate's authenticator
  Mintable,    \* what issuers ask of make_capability, besides the parent state
  MaxTime, MaxCaps, MaxRequests   \* bounds on the exploration

ASSUME GateAssumption ==
  /\ EmptyState \in State /\ NoState \notin State
  /\ NoTarget \notin Target /\ AnyTarget \notin Target \cup {NoTarget}
  /\ GateKey \in Key
  /\ MaxTime \in Nat \ {0} /\ MaxCaps \in Nat /\ MaxRequests \in Nat

VARIABLES
  state,    \* _state, with the default of current_hash where it has no entry
  results,  \* _history: one WriteResult per write, oldest first
  clock,    \* time.time() as write last read it
  caps,     \* the capabilities minted so far
  seen,     \* what each writer last observed, and the version it had
  lapsed    \* history variable: the capabilities refused as expired since the
            \* clock last went back

vars == <<state, results, clock, caps, seen, lapsed>>

Name == Target \cup {NoTarget}

Grant == [operation : {"READ", "WRITE"}, target : Name \cup {AnyTarget},
          scope : Name \cup {AnyTarget}, expires : 0 .. MaxTime, key : Key]

ASSUME GrantAssumption == Mintable \subseteq Grant

NoTag == <<>>

(* sign_canonical and verify_canonical of authenticity.py.                 *)
Tag(key, digest) == IF digest = NoState THEN NoTag ELSE <<key, digest>>
Verifies(digest, tag) == tag = <<GateKey, digest>>

Expired(q) == q.cap.expires # 0 /\ q.now > q.cap.expires

(* The operators Mut... are mistakes this code could have had.             *)
(*                                                                         *)
(* The checks of write in their order: check i failing denies the write    *)
(* when all before it passed.  Checks 4 and 6 of the code are hooks that   *)
(* return True.                                                            *)
MutChecks(q) == <<
  q.cap.operation = "WRITE",
  ~Expired(q),
  q.cap.target \in {q.target, AnyTarget},
  q.target # NoTarget,
  q.cap.scope \in {q.target, AnyTarget},
  TRUE,
  Verifies(q.parent, q.cap.tag) >>

MutChecksTag(q) == <<
  q.cap.operation = "WRITE",
  ~Expired(q),
  q.cap.target \in {q.target, AnyTarget},
  q.target # NoTarget,
  q.cap.scope \in {q.target, AnyTarget},
  q.parent = state[q.target],
  q.cap.tag # NoTag >>

Checks(q) == <<
  q.cap.operation = "WRITE",
  ~Expired(q),
  q.cap.target \in {q.target, AnyTarget},
  q.target # NoTarget,
  q.cap.scope \in {q.target, AnyTarget},
  q.parent = state[q.target],
  Verifies(q.parent, q.cap.tag) >>

Failed(q) == {i \in DOMAIN Checks(q) : ~Checks(q)[i]}

(* The writes to t that were committed, and how many they are.             *)
Commits(t) == {i \in DOMAIN results :
                 results[i].decision = "ALLOW" /\ results[i].target = t}
Version(t) == Cardinality(Commits(t))

(* The capabilities still known to be expired when write reads that time.  *)
Lapsed(now) == IF now < clock THEN {} ELSE lapsed

(* A WriteResult, with the version of the target its writer had observed,  *)
(* and whether its capability had been refused as expired before.          *)
Result(q, decision, reason) ==
  [decision |-> decision, target |-> q.target, previous |-> state[q.target],
   new |-> IF decision = "ALLOW" THEN q.mutation ELSE NoState,
   cap |-> q.cap, reason |-> reason, parent |-> q.parent, observed |-> q.version,
   lapsed |-> q.cap \in Lapsed(q.now)]

(* The commits to its target between commit i and what its writer observed. *)
Since(i) ==
  LET earlier == {j \in Commits(results[i].target) : j < i}
  IN  {j \in earlier : Cardinality({k \in earlier : k =< j}) > results[i].observed}

----------------------------------------------------------------------------
Init ==
  /\ state = [t \in Name |-> EmptyState]
  /\ results = <<>>
  /\ clock = 1
  /\ caps = {}
  /\ seen = [w \in Writer |-> [target |-> NoTarget, parent |-> NoState, version |-> 0]]
  /\ lapsed = {}

(* current_hash: a writer asks for the digest of a target.                 *)
Observe(w, t) ==
  /\ seen' = [seen EXCEPT ![w] = [target |-> t, parent |-> state[t],
                                  version |-> Version(t)]]
  /\ UNCHANGED <<state, results, clock, caps, lapsed>>

(* make_capability: the tag binds the parent state under the issuer's key. *)
MakeCapability(g, parent) ==
  /\ Cardinality(caps) < MaxCaps
  /\ caps' = caps \cup
       {[operation |-> g.operation, target |-> g.target, scope |-> g.scope,
         expires |-> g.expires, tag |-> Tag(g.key, parent)]}
  /\ UNCHANGED <<state, results, clock, seen, lapsed>>

(* write, of what the writer observed under some capability.  time.time()  *)
(* may answer anything: the clock goes on between two writes, or is set    *)
(* back.                                                                   *)
Request(w, c, mutation, now) ==
  [target |-> seen[w].target, parent |-> seen[w].parent,
   version |-> seen[w].version, cap |-> c, mutation |-> mutation, now |-> now]

MutStored(q) == [state EXCEPT ![q.target] = q.parent]
MutStoredNone(q) == [state EXCEPT ![q.target] = NoState]
MutStoredAny(q) == [n \in Name |-> IF q.cap.target \in {n, AnyTarget}
                                   THEN q.mutation ELSE state[n]]
Stored(q) == [state EXCEPT ![q.target] = q.mutation]

Allow(q) ==
  /\ Failed(q) = {}
  /\ state' = Stored(q)
  /\ results' = Append(results, Result(q, "ALLOW", 0))
  /\ lapsed' = Lapsed(q.now)

Deny(q) ==
  /\ Failed(q) # {}
  /\ results' = Append(results, Result(q, "DENY", Min(Failed(q))))
  /\ lapsed' = Lapsed(q.now) \cup {c \in {q.cap} : Min(Failed(q)) = 2}
  /\ UNCHANGED state

Write(w, c, mutation, now) ==
  /\ Len(results) < MaxRequests
  /\ \/ Allow(Request(w, c, mutation, now))
     \/ Deny(Request(w, c, mutation, now))
  /\ clock' = now
  /\ UNCHANGED <<caps, seen>>

Next ==
  \/ \E w \in Writer, t \in Name : Observe(w, t)
  \/ \E g \in Mintable, parent \in State \cup {NoState} : MakeCapability(g, parent)
  \/ \E w \in Writer, c \in caps, m \in State, now \in 1 .. MaxTime : Write(w, c, m, now)

Spec == Init /\ [][Next]_vars

----------------------------------------------------------------------------
(* The gate's map and log, the capabilities, and what writers observed.    *)
TypeOK ==
  /\ state \in [Name -> State]
  /\ \A i \in DOMAIN results :
       /\ results[i].decision \in {"ALLOW", "DENY"}
       /\ results[i].reason \in 0 .. 7
       /\ results[i].decision = "ALLOW" <=> results[i].reason = 0
  /\ clock \in 1 .. MaxTime
  /\ seen \in [Writer -> [target : Name, parent : State \cup {NoState}, version : Nat]]

(* The committed writes to a target form one chain of digests, from the    *)
(* digest of {} to what the gate holds: nothing was committed beside it.   *)
ChainIntact ==
  \A t \in Name :
     /\ Commits(t) = {} => state[t] = EmptyState
     /\ \A i \in Commits(t) :
          LET later == {j \in Commits(t) : j > i}
              next == results[Min(later)].previous
          IN  results[i].new = IF later = {} THEN state[t] ELSE next

(* A write based on an outdated observation goes through only when the     *)
(* target came back to the digest observed by a write made since.          *)
StaleNeedsReturn ==
  \A t \in Target : \A i \in Commits(t) :
     Since(i) # {} => \E j \in Since(i) : results[j].new = results[i].parent

(* A capability carries one write per occurrence of the digest it was      *)
(* minted for: between two writes it authorised on one target, some write  *)
(* brought that digest back.                                               *)
SpentOnReturn ==
  \A t \in Target : \A i, j \in Commits(t) :
     i < j /\ results[i].cap = results[j].cap =>
       \E k \in Commits(t) : i =< k /\ k < j /\ results[k].new = results[i].previous

(* A capability that was refused because it had expired, which one that    *)
(* never expires is not, carries no write again unless the clock was set   *)
(* back in between (rwa.py:71-72, 164).                                    *)
SpentOnExpiry ==
  \A i \in DOMAIN results :
     /\ results[i].reason = 2 => results[i].cap.expires # 0
     /\ results[i].lapsed => results[i].decision = "DENY"

(* However often it is presented, and by whomever, a capability is spent   *)
(* by a write and by its expiry.                                           *)
CapabilitySpent == SpentOnReturn /\ SpentOnExpiry

(* Every committed write was authorised for exactly the digest it replaced *)
(* and by the gate's own key, whoever observed what in the meantime.       *)
AuthorisedForReplaced ==
  \A t \in Name : \A i \in Commits(t) :
     results[i].cap.tag = <<GateKey, results[i].previous>>

(* A denied write, and anything but a committed one, changes no target.    *)
OnlyCommitsChange ==
  [][\A t \in Name : state'[t] # state[t] => Version(t)' = Version(t) + 1]_vars
=============================================================================
