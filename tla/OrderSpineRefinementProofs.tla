---------------------- MODULE OrderSpineRefinementProofs ----------------------
(***************************************************************************)
(* OrderSpine implements DecisionOnce: its initial states map to initial   *)
(* states, and every step maps to a step or leaves the mapped state alone. *)
(* The decision's side of the promise, that nothing of it is at work when  *)
(* it is tried again, is AdmittedMeansFree of OrderSpineOnceProofs.        *)
(***************************************************************************)
EXTENDS OrderSpineOnceProofs

USE SpineAssumption DEF SpineAssumption

\* A step of DecisionOnce, or one that leaves its two variables unchanged.
OnceStep == [Once!Next]_(Once!onceVars)

SameStatus(c) == AttemptStatus(c)' = AttemptStatus(c)

\* Nothing is minted, and nothing comes or goes.
LEMMA AbstractStutter ==
    ASSUME UNCHANGED <<owner, walIntent>>, \A x \in Orders : SameStatus(x)
    PROVE  OnceStep
BY DEF OnceStep, Once!onceVars, SameStatus

\* One attempt moves forward.
LEMMA AbstractMove ==
    ASSUME NEW c \in Orders, UNCHANGED <<owner, walIntent>>,
           \A x \in Orders \ {c} : SameStatus(x),
           \/ SameStatus(c)
           \/ AttemptStatus(c) = "pending" /\ AttemptStatus(c)' = "live"
           \/ AttemptStatus(c) \in {"pending", "live"} /\ AttemptStatus(c)' = "ended"
    PROVE  OnceStep
<1>1. CASE SameStatus(c)
  BY <1>1, AbstractStutter
<1>2. CASE AttemptStatus(c) = "pending" /\ AttemptStatus(c)' = "live"
  <2>1. Once!GoLive(c)
    BY <1>2 DEF Once!GoLive, SameStatus
  <2> QED BY <2>1 DEF OnceStep, Once!Next
<1>3. CASE AttemptStatus(c) \in {"pending", "live"} /\ AttemptStatus(c)' = "ended"
  <2>1. Once!End(c)
    BY <1>3 DEF Once!End, Once!AtWork, SameStatus
  <2> QED BY <2>1 DEF OnceStep, Once!Next
<1> QED
  BY <1>1, <1>2, <1>3

\* An admitted decision has no attempt at work, in the words of DecisionOnce.
LEMMA AbstractlyFree ==
    ASSUME TypeOK, OnceInv, NEW d \in Decisions, NEW c \in Orders, Admitted(d, c)
    PROVE  /\ AttemptStatus(c) = "unused" /\ c \notin walIntent
           /\ venue[c] = "absent" /\ ~wire[c] /\ phase[c] = "idle"
           /\ \A b \in Orders :
                 (IF b \in walIntent THEN owner[b] ELSE NoDecision) = d
                 => AttemptStatus(b) \notin {"pending", "live"}
<1>1. Untouched(c)
  BY DEF Admitted, OnceInv, UnmintedUntouched
<1>2. ASSUME NEW b \in Orders,
             (IF b \in walIntent THEN owner[b] ELSE NoDecision) = d
      PROVE  AttemptStatus(b) \notin {"pending", "live"}
  <2>1. b \in walIntent /\ owner[b] = d
    BY <1>2
  <2>2. ~Exposed(b)
    BY <2>1, AdmittedMeansFree
  <2> QED
    BY <2>1, <2>2 DEF AttemptStatus, Exposed
<1> QED
  BY <1>1, <1>2 DEF Untouched, OnTheWay, AttemptStatus

\* A new attempt whose order_intent is durable is tried; one whose order_intent
\* was lost is none of the attempts the journal records.
LEMMA SubmissionTries ==
    ASSUME TypeOK, OnceInv, NEW d \in Decisions, NEW c \in Orders, Admitted(d, c),
           NEW i, RegisterAndJournal(d, c, i),
           venue' = venue,
           \A x \in Orders \ {c} : wire'[x] = wire[x] /\ phase'[x] = phase[x]
    PROVE  OnceStep
<1> USE DEF TypeOK, JournalTypeOK
<1>1. \A x \in Orders \ {c} : SameStatus(x) /\ owner'[x] = owner[x]
  BY DEF RegisterAndJournal, SameStatus, AttemptStatus, MayLand
<1>2. CASE Durable(i)
  <2>1. walIntent' = walIntent \cup {c} /\ owner' = [owner EXCEPT ![c] = d]
    BY <1>2 DEF RegisterAndJournal
  <2>2. AttemptStatus(c)' \in {"pending", "ended"}
    BY <2>1, AbstractlyFree DEF AttemptStatus
  <2>3. [x \in Orders |-> IF x \in walIntent THEN owner[x] ELSE NoDecision]'
          = [[x \in Orders |-> IF x \in walIntent THEN owner[x] ELSE NoDecision]
                EXCEPT ![c] = d]
    BY <2>1
  <2>4. [x \in Orders |-> AttemptStatus(x)]'
          = [[x \in Orders |-> AttemptStatus(x)] EXCEPT ![c] = AttemptStatus(c)']
    BY <1>1 DEF SameStatus
  <2>5. Once!Try(d, c)
    BY <2>2, <2>3, <2>4, AbstractlyFree DEF Once!Try, Once!AtWork
  <2> QED
    BY <2>5 DEF OnceStep, Once!Next
<1>3. CASE ~Durable(i)
  <2>1. walIntent' = walIntent /\ c \notin walIntent
    BY <1>3, AbstractlyFree DEF RegisterAndJournal
  <2>2. SameStatus(c)
    BY <2>1 DEF SameStatus, AttemptStatus
  <2>3. [x \in Orders |-> IF x \in walIntent THEN owner[x] ELSE NoDecision]'
          = [x \in Orders |-> IF x \in walIntent THEN owner[x] ELSE NoDecision]
    BY <1>1, <2>1
  <2>4. [x \in Orders |-> AttemptStatus(x)]' = [x \in Orders |-> AttemptStatus(x)]
    BY <1>1, <2>2 DEF SameStatus
  <2> QED
    BY <2>3, <2>4 DEF OnceStep, Once!onceVars
<1> QED
  BY <1>2, <1>3

LEMMA StepImplements ==
    ASSUME NetworkAssumption, TypeOK, OnceInv, [Next]_vars
    PROVE  OnceStep
<1>1. ASSUME NEW c \in Orders, NEW d \in Decisions, SubmitSends(d, c)
      PROVE  OnceStep
  <2>1. PICK i : RegisterAndJournal(d, c, i)
    BY <1>1 DEF SubmitSends
  <2> QED
    BY <1>1, <2>1, SubmissionTries DEF SubmitSends, TypeOK, CallTypeOK, VenueTypeOK
<1>2. ASSUME NEW c \in Orders, NEW d \in Decisions, SubmitAborts(d, c)
      PROVE  OnceStep
  <2>1. PICK i : RegisterAndJournal(d, c, i)
    BY <1>2 DEF SubmitAborts
  <2> QED
    BY <1>2, <2>1, SubmissionTries DEF SubmitAborts, callVars, venueVars
<1>3. ASSUME NEW c \in Orders, CallEnds(c)
      PROVE  OnceStep
  <2>1. UNCHANGED <<owner, walIntent, venue>>
    BY <1>3 DEF CallEnds, SubmitReturns, SubmitRejected, SubmitNetworkError,
                SubmitRetries, SubmitTimesOut, SubmitFaults, ParkAsUnknown, Log,
                managerVars, journalVars, venueVars
  <2>2. \A x \in Orders \ {c} : wire'[x] = wire[x] /\ phase'[x] = phase[x]
    BY <1>3 DEF CallEnds, SubmitReturns, SubmitRejected, SubmitNetworkError,
                SubmitRetries, SubmitTimesOut, SubmitFaults, ParkAsUnknown, Settled,
                WireAfterGivingUp, TypeOK, CallTypeOK, VenueTypeOK, venueVars
  <2>3. phase[c] # "idle"
    BY <1>3 DEF CallEnds, SubmitReturns, SubmitRejected, SubmitNetworkError,
                SubmitRetries, SubmitTimesOut, SubmitFaults
  <2>4. \A x \in Orders \ {c} : SameStatus(x)
    BY <2>1, <2>2 DEF SameStatus, AttemptStatus, MayLand
  <2>5. \/ SameStatus(c)
        \/ AttemptStatus(c) = "pending" /\ AttemptStatus(c)' = "ended"
    BY <2>1, <2>3 DEF SameStatus, AttemptStatus, MayLand
  <2> QED
    BY <2>1, <2>4, <2>5, AbstractMove
<1>4. ASSUME NEW c \in Orders, VenueStep(c)
      PROVE  OnceStep
  <2>1. UNCHANGED <<owner, walIntent, phase>>
    BY <1>4 DEF VenueStep, VenueAccepts, VenueFills, VenueEnds, journalVars, callVars
  <2>2. \A x \in Orders \ {c} : wire'[x] = wire[x] /\ venue'[x] = venue[x]
    BY <1>4 DEF VenueStep, VenueAccepts, VenueFills, VenueEnds, TypeOK, VenueTypeOK
  <2>3. \/ wire[c] /\ venue[c] = "absent" /\ venue'[c] = "open"
        \/ venue[c] = "open" /\ venue'[c] \in {"open", "closed", "canceled", "rejected"}
    BY <1>4 DEF VenueStep, VenueAccepts, VenueFills, VenueEnds, TypeOK, VenueTypeOK
  <2>4. \A x \in Orders \ {c} : SameStatus(x)
    BY <2>1, <2>2 DEF SameStatus, AttemptStatus, MayLand
  <2>5. \/ SameStatus(c)
        \/ AttemptStatus(c) = "pending" /\ AttemptStatus(c)' = "live"
        \/ AttemptStatus(c) = "live" /\ AttemptStatus(c)' = "ended"
    BY <2>1, <2>3 DEF SameStatus, AttemptStatus, MayLand
  <2> QED
    BY <2>1, <2>4, <2>5, AbstractMove
<1>5. ASSUME UNCHANGED <<owner, walIntent, venue, wire, phase>>
      PROVE  OnceStep
  <2>1. \A x \in Orders : SameStatus(x)
    BY <1>5 DEF SameStatus, AttemptStatus, MayLand
  <2> QED
    BY <1>5, <2>1, AbstractStutter
<1>6. ASSUME NEW c \in Orders, StreamStep(c) \/ CancelStep(c) \/ SyncFillState(c)
      PROVE  UNCHANGED <<owner, walIntent, venue, wire, phase>>
  BY <1>6 DEF StreamStep, StreamOrder, StreamFill, CancelStep, CancelBegins,
              CancelAnswered, CancelFails, CancelRefreshes, SyncFillState, Log,
              journalVars, callVars, venueVars
<1>7. ASSUME ReconcileStep
      PROVE  UNCHANGED <<owner, walIntent, venue, wire, phase>>
  BY <1>7 DEF ReconcileStep, ReconcileBegins, ReconcileFetches, ReconcileFails,
              ReconcileResolves, Log, journalVars, venueVars
<1>8. ASSUME AcknowledgeRecovery \/ SideRecordFails \/ UNCHANGED vars
      PROVE  UNCHANGED <<owner, walIntent, venue, wire, phase>>
  BY <1>8 DEF AcknowledgeRecovery, SideRecordFails, vars, journalVars, callVars,
              venueVars
<1>9. ASSUME CrashAndRestart
      PROVE  OnceStep
  <2>1. /\ UNCHANGED <<owner, walIntent, venue>>
        /\ \A x \in Orders : ~MayLand(x)'
    BY <1>9 DEF CrashAndRestart, Restarted, NetworkAssumption, MayLand
  <2>2. \A x \in Orders :
          AttemptStatus(x)'
            = IF AttemptStatus(x) = "pending" THEN "ended" ELSE AttemptStatus(x)
    BY <2>1 DEF AttemptStatus
  <2>3. Once!Crash
    BY <2>1, <2>2 DEF Once!Crash
  <2> QED
    BY <2>3 DEF OnceStep, Once!Next
<1>10. ASSUME NEW c \in Orders, NEW d \in Decisions, CrashInsideSubmit(d, c)
       PROVE  OnceStep
  <2>1. /\ Admitted(d, c)
        /\ owner' = [owner EXCEPT ![c] = d] /\ walIntent' = walIntent \cup {c}
        /\ venue' = venue
        /\ \A x \in Orders : ~MayLand(x)'
    BY <1>10 DEF CrashInsideSubmit, Restarted, NetworkAssumption, MayLand
  <2>2. \A x \in Orders :
          AttemptStatus(x)' = IF x = c \/ AttemptStatus(x) = "pending" THEN "ended"
                              ELSE AttemptStatus(x)
    BY <2>1, AbstractlyFree DEF AttemptStatus
  <2>3. [x \in Orders |-> IF x \in walIntent THEN owner[x] ELSE NoDecision]'
          = [[x \in Orders |-> IF x \in walIntent THEN owner[x] ELSE NoDecision]
                EXCEPT ![c] = d]
    BY <2>1 DEF TypeOK
  <2>4. Once!TryAndCrash(d, c)
    BY <2>1, <2>2, <2>3, AbstractlyFree DEF Once!TryAndCrash, Once!AtWork
  <2> QED
    BY <2>4 DEF OnceStep, Once!Next
<1> QED
  BY <1>1, <1>2, <1>3, <1>4, <1>5, <1>6, <1>7, <1>8, <1>9, <1>10
  DEF Next, SubmitStep, CallEnds, CrashStep

\* Idempotency as a refinement (ImplementsDecisionOnce, DESIGN.md section 4):
\* seen through its journal, the order spine tries an attempt of a decision
\* only when every earlier one has ended, and an attempt that has ended stays
\* so, whatever is retried, replaced, lost, crashed or replayed.
THEOREM SpineImplementsDecisionOnce ==
    ASSUME NetworkAssumption
    PROVE  Spec => ImplementsDecisionOnce
<1>1. Init => Once!Init
  BY DEF Init, Once!Init, AttemptStatus
<1>2. TypeOK /\ OnceInv /\ [Next]_vars => OnceStep
  BY StepImplements
<1> QED
  BY <1>1, <1>2, OnceInvAlways, PTL
  DEF Spec, ImplementsDecisionOnce, Once!Spec, OnceStep
===============================================================================
