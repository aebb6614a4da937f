------------------------------- MODULE Devices -------------------------------
(* BRN-1: the device registry of branch seeds (brn.py).  Attestations are     *)
(* appended under their seed, expire as time passes and are pruned; attention *)
(* finds the seed a candidate belongs to, authorize says whether a key is     *)
(* good for a seed now.  A caller keeps the answer attention gave it while    *)
(* the registry moves on and the clock is whatever the host makes it.         *)
EXTENDS Naturals, Sequences, FiniteSets

CONSTANTS Device, Key,   \* device ids and public key references
          Seed, NoSeed,  \* branch seeds, and branch_seed = None
          EmptySeed,     \* branch_seed = "", which may be a seed like any other
          Expiry,        \* the expires_at values attested; 0 is never
          MaxTime,       \* bound: the clock
          MaxEntries     \* bound: attestations in the registry

ASSUME SeedAssumption == NoSeed \notin Seed \union {EmptySeed}
ASSUME TimeAssumption == Expiry \subseteq Nat /\ MaxTime \in Nat \ {0} /\ MaxEntries \in Nat

VARIABLES seeds,      \* _seeds
          registry,   \* _registry, <<>> for a seed it does not hold
          clock,      \* time.time()
          answer,     \* the AttentionResult the caller keeps, and the seed it asked for
          pruned      \* history: the latest time a prune read since that answer, else 0

vars == <<seeds, registry, clock, answer, pruned>>

Attestation == [device : Device, key : Key, seed : Seed, expires : Expiry]
Candidate == Device \union Key
Status == {"matched", "unmatched", "ambiguous"}

(* is_expired; the mutant forgets that 0 is never.                             *)
MutExpired(a) == clock > a.expires
Expired(a) == a.expires # 0 /\ clock > a.expires

Entries(s) == {registry[s][i] : i \in DOMAIN registry[s]}
Slots == UNION {{s} \X DOMAIN registry[s] : s \in Seed}
Size == Cardinality(Slots)

Names(a, candidate) == a.key = candidate \/ a.device = candidate
Matches(candidate, S) ==
  {a \in UNION {Entries(s) : s \in S} : Names(a, candidate)}

Branch == Seed \union {EmptySeed}

Answer(asked, status, branch, candidate, found) ==
  [asked |-> asked, status |-> status, branch |-> branch, candidate |-> candidate,
   matched |-> found]

(* The answers attention may give.  Without a seed, and with the empty one,   *)
(* it goes through all seeds in no particular order and names the seed of the *)
(* first match; but the empty one is still a seed for a match to differ from. *)
Answers(candidate, branch) ==
  LET S == IF branch \in {NoSeed, EmptySeed} THEN seeds ELSE {branch}
      named == IF branch = NoSeed THEN EmptySeed ELSE branch
      found == Matches(candidate, S)
      ambiguous == branch # NoSeed /\ \E a \in found : a.seed # branch
  IN CASE ambiguous -> {Answer(branch, "ambiguous", named, candidate, found)}
       [] ~ambiguous /\ found = {} -> {Answer(branch, "unmatched", named, candidate, {})}
       [] OTHER -> {Answer(branch, "matched", a.seed, candidate, found) : a \in found}

Authorize(s, k) == \E a \in Entries(s) : a.key = k /\ ~Expired(a)

(* The entries of a list that are in S, one after the other, as the loops of  *)
(* devices_for_seed and prune_expired collect them.                           *)
Among(list, S) ==
  LET kept[n \in 0..Len(list)] ==
        IF n = 0 THEN <<>>
        ELSE IF list[n] \in S THEN Append(kept[n - 1], list[n]) ELSE kept[n - 1]
  IN kept[Len(list)]

Unexpired == {a \in Attestation : ~Expired(a)}

DevicesForSeed(s) == Among(registry[s], Unexpired)

-----------------------------------------------------------------------------
Init ==
  /\ seeds = {}
  /\ registry = [s \in Seed |-> <<>>]
  /\ clock = 1
  /\ answer = Answer(NoSeed, "unmatched", EmptySeed, NoSeed, {})
  /\ pruned = 0

RegisterSeed(s) ==
  /\ seeds' = seeds \union {s}
  /\ UNCHANGED <<registry, clock, answer, pruned>>

(* The seed an attestation is filed under; the mutant files it under every    *)
(* seed already known.                                                        *)
MutFiled(a) == seeds \union {a.seed}
Filed(a) == {a.seed}

(* register: neither the seed nor a repetition is checked.                    *)
Register(a) ==
  /\ Size < MaxEntries
  /\ registry' = [s \in Seed |-> IF s \in Filed(a) THEN Append(registry[s], a)
                                                    ELSE registry[s]]
  /\ UNCHANGED <<seeds, clock, answer, pruned>>

Attention(candidate, branch) ==
  /\ \E r \in Answers(candidate, branch) : answer' = r
  /\ pruned' = 0
  /\ UNCHANGED <<seeds, registry, clock>>

(* The entries a prune keeps; the mutant keeps the oldest of them alone.      *)
MutKept(s) == LET alive == DevicesForSeed(s) IN IF alive = <<>> THEN <<>> ELSE <<Head(alive)>>
Kept(s) == DevicesForSeed(s)

PruneExpired ==
  /\ registry' = [s \in Seed |-> Kept(s)]
  /\ pruned' = IF clock > pruned THEN clock ELSE pruned
  /\ UNCHANGED <<seeds, clock, answer>>

(* The host's clock, which goes on, and may be set forward or back.           *)
SetClock(time) ==
  /\ clock' = time
  /\ UNCHANGED <<seeds, registry, answer, pruned>>

Next ==
  \/ \E s \in Seed : RegisterSeed(s)
  \/ \E a \in Attestation : Register(a)
  \/ \E c \in Candidate, b \in Branch \union {NoSeed} : Attention(c, b)
  \/ PruneExpired
  \/ \E time \in 1..MaxTime : SetClock(time)

Spec == Init /\ [][Next]_vars

-----------------------------------------------------------------------------
(* Every variable keeps its shape, within the bounds.                         *)
TypeOK ==
  /\ seeds \subseteq Seed
  /\ registry \in [Seed -> Seq(Attestation)]
  /\ Size <= MaxEntries
  /\ clock \in 1..MaxTime
  /\ answer.asked \in Branch \union {NoSeed}
  /\ answer.status \in Status
  /\ answer.branch \in Branch
  /\ answer.matched \subseteq Attestation
  /\ pruned \in 0..MaxTime

(* A match outlives its answer, on any clock: whatever is registered, asked   *)
(* or pruned after attention named a device, its key is authorized for its    *)
(* seed whenever its attestation is not past its expiry, unless a prune has   *)
(* run at a time that was.  Then it is gone, and setting the clock back does  *)
(* not bring it back (brn.py:53-54, 104-155, 163-173).                        *)
MatchStaysValid ==
  \A a \in answer.matched :
    a.expires = 0 \/ (clock <= a.expires /\ pruned <= a.expires)
      => Authorize(a.seed, a.key)

(* What "ambiguous" stands for: never a candidate of several seeds, which is  *)
(* answered with one of them, but a search under the empty seed that matched  *)
(* an attestation of another.  A match names the seed of one of its devices   *)
(* (brn.py:106-149).                                                          *)
AmbiguousIfEmptySeed ==
  /\ answer.status = "ambiguous" <=> /\ answer.asked = EmptySeed
                                     /\ \E a \in answer.matched : a.seed # EmptySeed
  /\ answer.status = "matched" => \E a \in answer.matched :
                                     /\ a.seed = answer.branch
                                     /\ Names(a, answer.candidate)

(* Pruning is invisible: no list of a seed's devices and no authorization     *)
(* changes by it, in content or in order (brn.py:151-173).                    *)
PruneInvisible ==
  [][clock' = clock /\ (\A s \in Seed : Len(registry'[s]) <= Len(registry[s]))
     => \A s \in Seed : /\ DevicesForSeed(s)' = DevicesForSeed(s)
                        /\ \A k \in Key : Authorize(s, k)' <=> Authorize(s, k)]_vars
=============================================================================
