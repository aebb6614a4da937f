------------------------------- MODULE Engine -------------------------------
(* The SOE-DDCI engine: one entity with one objective, its state machine      *)
(* (states.py, entity.py), its data bank, relations and event log, and the    *)
(* cycle of engine.py that observes an input, reconstructs a context, decides *)
(* (decision.py) and moves the entity; with the selections of module          *)
(* Selection that the engine logs.                                            *)
(*                                                                            *)
(* The event log only grows and is never read by a decision: `appended` is    *)
(* what the last call appended to it.  Of the data bank a decision reads only *)
(* whether its `Window` newest records are more than half of it, so the count *)
(* of records stops at 2 * Window, from where on they are not.  Scores are in *)
(* units of 1/10000, priorities in hundredths.                                *)
EXTENDS Selection

CONSTANTS Objective,     \* the objectives an entity may be created with
          NoTarget,      \* the empty objective target
          Session,       \* session names
          NoState,       \* a from_state or to_state that is None
          Window,        \* the records a context retrieves (50 in context.py)
          Clusters,      \* the payload sequences given to RCS-0
          Chains,        \* the payload triples given to UTT
          MaxCalls       \* bound: transitions the caller makes by itself

State == {"NULL", "CREATED", "ACTIVE", "OBSERVED", "RELATED", "STORED",
          "RETRIEVED", "TRANSFORMED", "ARCHIVED", "INVALID"}

ASSUME ObjectiveAssumption ==
  Objective \subseteq [type : STRING, target : STRING \union {NoTarget}, priority : Nat]
ASSUME StateAssumption == NoState \notin State
ASSUME WindowAssumption == Window \in Nat \ {0} /\ MaxCalls \in Nat
ASSUME ClustersAssumption == \A items \in Clusters : items \in Seq(Payload)
ASSUME ChainsAssumption == Chains \subseteq Payload \X Payload \X Payload

VARIABLES objective,   \* entity.objective, set once
          state,       \* entity.state
          bank,        \* records: how many, up to 2 * Window; current: the state
                       \* the newest ENTITY record gives
          related,     \* relation_count() > 0
          session,     \* engine.session_id, and metadata["session_id"]
          appended,    \* the events the last call appended
          out,         \* what the last call returned
          calls        \* transitions made by the caller

vars == <<objective, state, bank, related, session, appended, out, calls>>

-----------------------------------------------------------------------------
Id == [s \in State |-> CASE s = "NULL" -> 0 [] s = "CREATED" -> 1 [] s = "ACTIVE" -> 2
         [] s = "OBSERVED" -> 3 [] s = "RELATED" -> 4 [] s = "STORED" -> 5
         [] s = "RETRIEVED" -> 6 [] s = "TRANSFORMED" -> 7 [] s = "ARCHIVED" -> 8
         [] s = "INVALID" -> 9]

ValidTransitions ==
  {<<"NULL", "CREATED">>, <<"CREATED", "ACTIVE">>, <<"CREATED", "STORED">>,
   <<"ACTIVE", "OBSERVED">>, <<"OBSERVED", "ACTIVE">>, <<"ACTIVE", "RELATED">>,
   <<"STORED", "RETRIEVED">>, <<"OBSERVED", "STORED">>,
   <<"RETRIEVED", "TRANSFORMED">>, <<"RELATED", "TRANSFORMED">>,
   <<"TRANSFORMED", "ACTIVE">>, <<"TRANSFORMED", "ARCHIVED">>,
   <<"TRANSFORMED", "INVALID">>, <<"ACTIVE", "ARCHIVED">>, <<"STORED", "ARCHIVED">>}

AvailableFrom(s) == {t \in State : <<s, t>> \in ValidTransitions}

(* Where transition_to leaves an entity in s: where it was, when the edge is  *)
(* not allowed.  The mutant does not look the edge up.                        *)
MutLand(s, t) == t
Land(s, t) == IF <<s, t>> \in ValidTransitions THEN t ELSE s

EventType == {"created", "activated", "observed", "related", "stored", "retrieved",
              "transformed", "archived", "invalidated", "relation_added",
              "memory_written", "context_reconstructed", "decision_made"}

Action == {"transition", "store", "store_D2", "relate", "new_session",
           "rcs0_select", "f4_form"}

EventKind(s) ==
  CASE s = "ACTIVE" -> "activated" [] s = "OBSERVED" -> "observed"
    [] s = "CREATED" -> "created" [] s = "STORED" -> "stored"
    [] s = "RETRIEVED" -> "retrieved" [] s = "TRANSFORMED" -> "transformed"
    [] s = "ARCHIVED" -> "archived" [] s = "INVALID" -> "invalidated"
    [] s = "RELATED" -> "relation_added" [] OTHER -> "context_reconstructed"

Event(kind, action) == [type |-> kind, session |-> session, action |-> action,
                        from |-> NoState, to |-> NoState]

(* The event of a transition from s to t, when transition_to made one.        *)
Moved(s, t) == IF s = t THEN <<>>
               ELSE <<[Event(EventKind(t), "transition") EXCEPT !.from = s, !.to = t]>>

Cap(n) == IF n > 2 * Window THEN 2 * Window ELSE n

-----------------------------------------------------------------------------
(* Decisions.                                                                 *)

Directed == objective.type = "single" /\ objective.target # NoTarget

(* retrieval_relevance > 0.5, in a bank of n records                          *)
Relevant(n) == n < 2 * Window

(* Base preference by objective.  The mutant has no preference for STORED.    *)
MutBase(s) ==
  IF ~Directed THEN 5000
  ELSE objective.priority * (CASE s = objective.target -> 100
                               [] s = "ACTIVE" /\ s # objective.target -> 60
                               [] OTHER -> 30)

Base(s) ==
  IF ~Directed THEN 5000
  ELSE objective.priority * (CASE s = objective.target -> 100
                               [] s = "STORED" /\ s # objective.target -> 80
                               [] s = "ACTIVE" /\ s # objective.target -> 60
                               [] OTHER -> 30)

(* Contextual adjustments, with an input unless it is empty, in a bank of n   *)
(* records.                                                                   *)
Gain(s, input, n) ==
  IF \/ s = "ACTIVE" /\ Relevant(n)
     \/ s = "OBSERVED" /\ input
     \/ s = "RELATED" /\ related
  THEN 1000 ELSE 0

Loss(s) == CASE s = "INVALID" -> 5000 [] s = "ARCHIVED" -> 3000 [] OTHER -> 0

Score(s, input, n) ==
  LET raw == Base(s) + Gain(s, input, n)
  IN CASE raw < Loss(s) -> 0
       [] raw >= Loss(s) /\ raw - Loss(s) > 10000 -> 10000
       [] OTHER -> raw - Loss(s)

(* The sort is stable over candidates in the order of their ids.  The mutant  *)
(* breaks ties the other way.                                                 *)
MutBefore(s, t, input, n) ==
  \/ Score(s, input, n) > Score(t, input, n)
  \/ Score(s, input, n) = Score(t, input, n) /\ Id[s] > Id[t]

Before(s, t, input, n) ==
  \/ Score(s, input, n) > Score(t, input, n)
  \/ Score(s, input, n) = Score(t, input, n) /\ Id[s] < Id[t]

First(C, input, n) == CHOOSE s \in C : \A t \in C \ {s} : Before(s, t, input, n)

(* The state decide() goes to.  The mutant keeps INVALID when it scores best. *)
MutDecide(s, input, n) ==
  IF AvailableFrom(s) = {} THEN s ELSE First(AvailableFrom(s), input, n)

Decide(s, input, n) ==
  LET C == AvailableFrom(s)
      best == First(C, input, n)
      second == First(C \ {best}, input, n)
  IN IF C = {} THEN s
     ELSE IF best = "INVALID" /\ C # {best} /\ Score(second, input, n) > 0 THEN second
     ELSE best

-----------------------------------------------------------------------------
Init ==
  /\ objective \in Objective
  /\ state \in State
  /\ bank = [records |-> 1, current |-> state]
  /\ related = FALSE
  /\ session \in Session
  /\ appended = <<>>
  /\ out = [call |-> "new"]
  /\ calls = 0

(* One cycle: activate an entity just created, observe when the state allows  *)
(* it, remember the input, decide from the state reached and move there.      *)
Activated == IF state = "CREATED" THEN Land(state, "ACTIVE") ELSE state
Observed == Land(Activated, "OBSERVED")
Routed == Moved(state, Activated) \o Moved(Activated, Observed)
Known == Cap(bank.records + Len(Routed) + 1)

Process(input) ==
  \E route \in {Routed}, observed \in {Observed}, known \in {Known} :
    \E decided \in {Decide(observed, input, known)} :
      \E moved \in {Moved(observed, Land(observed, decided))} :
         /\ state' = Land(observed, decided)
         /\ bank' = [records |-> Cap(known + Len(moved)),
                     current |-> IF route \o moved = <<>> THEN bank.current ELSE state']
         /\ appended' = route \o <<Event("memory_written", "store_D2")>> \o moved
         /\ out' = [call |-> "process", before |-> observed, after |-> decided,
                    ok |-> moved # <<>>, relevant |-> Relevant(known)]
         /\ UNCHANGED <<objective, related, session, calls>>

(* transition_to, called by the owner of the entity.                          *)
TransitionTo(t) ==
  /\ calls < MaxCalls
  /\ t \in AvailableFrom(state)
  /\ state' = Land(state, t)
  /\ bank' = [records |-> Cap(bank.records + 1), current |-> t]
  /\ appended' = Moved(state, t)
  /\ out' = [call |-> "transition_to"]
  /\ calls' = calls + 1
  /\ UNCHANGED <<objective, related, session>>

(* remember, called by the owner of the entity.                               *)
Remember ==
  /\ bank' = [bank EXCEPT !.records = Cap(@ + 1)]
  /\ appended' = <<Event("memory_written", "store")>>
  /\ out' = [call |-> "remember"]
  /\ UNCHANGED <<objective, state, related, session, calls>>

(* relate_to, with a weight and a confidence in range.                        *)
Relate ==
  /\ related' = TRUE
  /\ appended' = <<Event("relation_added", "relate")>>
  /\ out' = [call |-> "relate"]
  /\ UNCHANGED <<objective, state, bank, session, calls>>

NewSession(s) ==
  /\ session' = s
  /\ appended' = <<[Event("context_reconstructed", "new_session") EXCEPT !.session = s]>>
  /\ out' = [call |-> "new_session"]
  /\ UNCHANGED <<objective, state, bank, related, calls>>

ProduceRemain(items, u) ==
  /\ out' = [call |-> "remain", remain |-> Select(Cluster(items), u)]
  /\ appended' = <<Event("transformed", "rcs0_select")>>
  /\ UNCHANGED <<objective, state, bank, related, session, calls>>

(* produce_formation logs only after form() returned.                         *)
ProduceFormation(items, u) ==
  LET remain == Select(Cluster(items), u)
  IN /\ IF CanForm(remain)
        THEN /\ out' = [call |-> "formation", remain |-> remain]
             /\ appended' = <<Event("transformed", "f4_form")>>
        ELSE /\ out' = [call |-> "raised", remain |-> remain]
             /\ appended' = <<>>
     /\ UNCHANGED <<objective, state, bank, related, session, calls>>

(* The engine's selector, used for a chain by its caller.                     *)
UseChain(g, q, r) ==
  /\ out' = [call |-> "chain", remain |-> UttMatch(g, q, r)]
  /\ appended' = <<>>
  /\ UNCHANGED <<objective, state, bank, related, session, calls>>

Cycle == \E input \in BOOLEAN : Process(input)

Next ==
  \/ Cycle
  \/ \E t \in State : TransitionTo(t)
  \/ Remember
  \/ Relate
  \/ \E s \in Session : NewSession(s)
  \/ \E items \in Clusters, u \in Code : ProduceRemain(items, u)
  \/ \E items \in Clusters, u \in Code : ProduceFormation(items, u)
  \/ \E chain \in Chains : UseChain(chain[1], chain[2], chain[3])

(* The engine runs when it is given an input; what must eventually happen is  *)
(* claimed of a host that keeps feeding it, whatever it does in between.      *)
Spec == Init /\ [][Next]_vars /\ WF_vars(Cycle)

-----------------------------------------------------------------------------
(* Every variable keeps its shape, the bank knows at least the seed record,   *)
(* and a selection's result is a RemainResult whose address is in its cluster.*)
TypeOK ==
  /\ objective \in Objective
  /\ state \in State
  /\ bank \in [records : 1..(2 * Window), current : State]
  /\ related \in BOOLEAN
  /\ session \in Session
  /\ calls \in 0..MaxCalls
  /\ \A i \in DOMAIN appended :
        appended[i] \in [type : EventType, session : Session, action : Action,
                         from : State \union {NoState}, to : State \union {NoState}]
  /\ out.call \in {"remain", "formation", "raised", "chain"} =>
        out.remain \in RemainResult /\ out.remain.direct \in 0..Len(out.remain.cluster)

(* The transitions in a log, in its order, lead from s to t along allowed     *)
(* edges.                                                                     *)
Leads(log, s, t) ==
  LET moves == {i \in DOMAIN log : log[i].from # NoState}
      Earlier(i) == {j \in moves : j < i}
  IN /\ moves = {} => s = t
     /\ \A i \in moves :
          /\ <<log[i].from, log[i].to>> \in ValidTransitions
          /\ Earlier(i) = {} => log[i].from = s
          /\ moves = Earlier(i) \union {i} => log[i].to = t
          /\ \A j \in moves : Earlier(j) = Earlier(i) \union {i} => log[j].from = log[i].to

(* The log explains the entity: the transitions a call appended lead from the *)
(* state before it to the state after, under the session the call ran in, and *)
(* the newest ENTITY record gives the state they end in (entity.py:67-96).    *)
LogExplainsState ==
  [][/\ Leads(appended', state, state')
     /\ \A i \in DOMAIN appended' : appended'[i].session = session'
     /\ bank'.current = state']_vars

(* What an objective demands, it gets of the next cycle, in any context: with *)
(* a weight strictly between 1.0 and 1.5 a target next to the state the cycle *)
(* decides from is taken at once, through the cap at 1.0 and the ties it      *)
(* makes.  At 1.0 ARCHIVED loses a tie to a relevant ACTIVE, at 1.5 STORED    *)
(* does.  The exception is INVALID: no cycle takes an entity there, whatever  *)
(* the objective demands (decision.py:73-84, 107-160).                        *)
DemandTaken ==
  [][out'.call = "process" =>
       /\ state' = "INVALID" => state = "INVALID"
       /\ /\ Directed
          /\ objective.priority \in 101..149
          /\ objective.target \in AvailableFrom(out'.before) \ {"INVALID"}
          => state' = objective.target]_vars

(* Without a target no cycle takes an entity out of ACTIVE: ACTIVE outscores  *)
(* STORED while the context is relevant, and wins the tie once the bank has   *)
(* outgrown it (decision.py:76, 137, 142).                                    *)
UndirectedStaysActive ==
  [][ /\ out'.call = "process"
      /\ ~Directed
      /\ state \in {"CREATED", "ACTIVE", "OBSERVED"}
      => state' = "ACTIVE" ]_vars

(* An objective with a weight between one half and one is reached: once the   *)
(* caller makes no more transitions of its own, an entity that has not come   *)
(* to a terminal state passes through its target, when that is a state cycles *)
(* can reach, and ARCHIVED in particular ends it (engine.py:45-92,            *)
(* decision.py:107-160).                                                      *)
Steerable == {"ACTIVE", "OBSERVED", "STORED", "RETRIEVED", "TRANSFORMED", "ARCHIVED"}

Steered == /\ Directed
           /\ objective.target \in Steerable
           /\ objective.priority \in 50..100

Passed(t) == state = t \/ \E i \in DOMAIN appended : appended[i].to = t

ObjectiveReached ==
  Steered /\ calls = MaxCalls /\ AvailableFrom(state) # {} ~> Passed(objective.target)

(* A selection keeps exactly the items the sequence names and addresses the   *)
(* last of them; a chain resolves only when all three agree (rcs.py:103-181). *)
(* A formation is made, and logged, exactly when one item alone remained: a   *)
(* repeated payload, or two with one repr, are refused with nothing logged    *)
(* (formation.py:100-121, engine.py:189-205).                                 *)
RemainExact ==
  /\ out.call \in {"remain", "formation", "raised"} => ExactSplit(out.remain)
  /\ out.call = "chain" => ChainResolved(out.remain)
  /\ out.call = "formation" => /\ out.remain.matched = 1
                               /\ \E i \in DOMAIN appended : appended[i].action = "f4_form"
  /\ out.call = "raised" => out.remain.matched # 1 /\ appended = <<>>
=============================================================================
