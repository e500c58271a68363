--------------------------- MODULE ComponentReset ---------------------------
(***************************************************************************)
(* A composite property and its components, of which the program resets    *)
(* one: PropertiesTransaction::resetValue takes any property, and          *)
(* setValueAndConfirm calls it for the property it has written until the   *)
(* value is there again.  The composite keeps its value, so the value read *)
(* next is an equal one, setCurrentValue emits no valueChanged, and the    *)
(* component is never given a value.                                       *)
(***************************************************************************)
EXTENDS PropertyAdapters

\* The PropertyValue of the component alone.
ResetComponent(c) ==
  /\ component' = [component EXCEPT ![c] = NoResult]
  /\ UNCHANGED <<deviceVars, cached, lastWritten, firstRead, writeFailed, waiting, threadVars>>

ResetNext == Next \/ \E c \in Components : ResetComponent(c)

ResetSpec == Init /\ [][ResetNext]_vars

\* "if is readable, read new value" (properties.h, refreshValue): after the read that a
\* refresh of a component makes, the component shows the value that was read.  The code
\* does not keep this: see the README.
RefreshGivesValue ==
  [][UpdateAfterRead /\ answer.ok =>
       \A c \in Components : component'[c] = Projection(answer.result, c)]_vars

=============================================================================
