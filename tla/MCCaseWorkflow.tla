-------------------------- MODULE MCCaseWorkflow --------------------------
(***************************************************************************)
(* Small instances of CaseWorkflow.  A case is closed from intake, may be  *)
(* reopened and is archived once closed.  The loop lets a request meet the *)
(* state it read again, at a later version; the state that ends the        *)
(* workflow is not the one whose name the cases table treats as closing.   *)
(***************************************************************************)
EXTENDS CaseWorkflow

MCTransitions ==
    { [key |-> "close",   from |-> "intake", to |-> "CLOSED"],
      [key |-> "reopen",  from |-> "CLOSED", to |-> "intake"],
      [key |-> "archive", from |-> "CLOSED", to |-> "archived"] }

MCStates == {"intake", "CLOSED", "archived"}
MCKeys == {"close", "reopen", "archive"}
MCIntake == "intake"
MCTerminal == {"archived"}
MCClosedNames == {"CLOSED"}

MCOneForm == {"report"}
MCOneSlot == {<<"CLOSED", "report">>}
MCBothSlots == {<<"intake", "report">>, <<"CLOSED", "report">>}
=============================================================================
