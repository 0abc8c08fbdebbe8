----------------------------- MODULE OrderStates -----------------------------
(***************************************************************************)
(* The order state machine of execution/order_state.py: the whitelist of   *)
(* transitions, the terminal and the unresolved states, and the way an     *)
(* event of the private venue stream is driven through the whitelist       *)
(* (OrderManager._transition_from_private_stream).  No variables.          *)
(***************************************************************************)

(***************************************************************************)
(* States are written as the values of the OrderState enumeration.         *)
(* "none" is not one of them: it stands for an order that                  *)
(* OrderManager.orders does not hold.  The states before SUBMITTING exist  *)
(* only inside one atomic stretch of OrderManager.submit.                  *)
(***************************************************************************)
VenueFacingStates ==
    {"submitting", "acknowledged", "partially_filled", "filled",
     "cancel_requested", "cancelled", "rejected", "timeout_unknown",
     "reconciling"}

\* LEGAL_TRANSITIONS, one pair per edge.
LegalTransitions ==
    ({"signal_created"} \X {"risk_requested"})
    \cup ({"risk_requested"} \X {"risk_approved", "risk_rejected"})
    \cup ({"risk_approved"} \X {"order_intent_created"})
    \cup ({"order_intent_created"} \X {"submitting"})
    \cup ({"submitting"} \X {"acknowledged", "rejected", "timeout_unknown"})
    \cup ({"acknowledged"}
            \X {"partially_filled", "filled", "cancel_requested", "rejected"})
    \cup ({"partially_filled"}
            \X {"partially_filled", "filled", "cancel_requested"})
    \cup ({"cancel_requested"}
            \X {"cancelled", "filled", "partially_filled", "timeout_unknown"})
    \cup ({"timeout_unknown"} \X {"reconciling"})
    \cup ({"reconciling"}
            \X {"acknowledged", "partially_filled", "filled", "cancelled",
                "rejected"})

\* ManagedOrder.transition raises IllegalTransition exactly when this is false.
Legal(from, to) == <<from, to>> \in LegalTransitions

TerminalStates == {"risk_rejected", "filled", "cancelled", "rejected"}

UnresolvedStates == {"timeout_unknown", "reconciling"}

(***************************************************************************)
(* _transition_from_private_stream(order, state): the intermediate state   *)
(* it first moves the order to, then the requested transition.  A venue    *)
(* event seen while the submit call is still pending first acknowledges    *)
(* the order; an unresolved timeout first becomes RECONCILING; a venue     *)
(* cancel first becomes CANCEL_REQUESTED.                                  *)
(***************************************************************************)
AfterTimeout(s) == IF s = "timeout_unknown" THEN "reconciling" ELSE s

StreamStagingState(s, target) ==
    LET s1 == AfterTimeout(s)
        s2 == IF s1 = "submitting" THEN "acknowledged" ELSE s1
    IN  CASE target = "acknowledged" -> s1
          [] target = "cancelled" /\ s2 \in {"acknowledged", "partially_filled"}
                -> "cancel_requested"
          [] OTHER -> s2

\* TRUE when the stream's event can be applied to an order in state s.
StreamApplies(s, target) ==
    \/ s = target
    \/ /\ s \notin TerminalStates \cup {"none"}
       /\ \/ s = "partially_filled" /\ target = "acknowledged"
          \/ Legal(StreamStagingState(s, target), target)

\* The state apply_venue_order_update leaves the order in.
StreamResult(s, target) ==
    IF StreamApplies(s, target) /\ ~(s = "partially_filled" /\ target = "acknowledged")
    THEN target
    ELSE s

(***************************************************************************)
(* The changes of an order's state that the table allows between two awaits *)
(* of its owner: one transition, or an event of the stream through its      *)
(* intermediate states, or a submit that times out and is reconciled at     *)
(* once.                                                                    *)
(***************************************************************************)
LegalRoute(from, to) ==
    \/ Legal(from, to)
    \/ from = "submitting" /\ (Legal("acknowledged", to) \/ to \in {"reconciling", "cancelled"})
    \/ from = "timeout_unknown" /\ Legal("reconciling", to)
    \/ to = "cancelled" /\ Legal(from, "cancel_requested")
=============================================================================
