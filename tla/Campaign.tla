------------------------------ MODULE Campaign ------------------------------
(***************************************************************************)
(* What a validation run promises, and nothing else: it deals with its     *)
(* tests one after the other, a result that stands comes from a command    *)
(* that was launched, a score from a window that was closed, cleanups wait *)
(* until the last test is dealt with, and a report is published only when  *)
(* every test has its entry and no cleanup is owed.  A run may stop at any *)
(* point without a report.                                                 *)
(***************************************************************************)
EXTENDS Naturals, Sequences

CONSTANT N

Tests == 1 .. N

VARIABLES
  due,       \* tests whose cleanup is called for when their result stands
  entries,   \* the tests dealt with, in order
  launched,  \* tests whose command reached the endpoint
  closed,    \* tests whose evidence window is closed
  stands,    \* tests with a result that stands
  scored,    \* those of them with a score
  owed,      \* tests whose cleanup is to be run
  cleaned,   \* tests whose cleanup was run
  report

vars == <<due, entries, launched, closed, stands, scored, owed, cleaned, report>>

Init ==
  /\ due \subseteq Tests
  /\ entries = <<>> /\ report = "none"
  /\ launched = {} /\ closed = {} /\ stands = {} /\ scored = {}
  /\ owed = {} /\ cleaned = {}

Current == Len(entries) + 1
AllEntered == entries = [t \in Tests |-> t]

Launch ==
  /\ Current \in Tests
  /\ launched' = launched \cup {Current}
  /\ UNCHANGED <<due, entries, closed, stands, scored, owed, cleaned, report>>

Close ==
  /\ Current \in launched
  /\ closed' = closed \cup {Current}
  /\ UNCHANGED <<due, entries, launched, stands, scored, owed, cleaned, report>>

(* The entry of a test whose result does not stand; the step may have      *)
(* launched it itself.                                                     *)
Enter ==
  /\ Current \in Tests
  /\ entries' = Append(entries, Current)
  /\ launched' \in {launched, launched \cup {Current}}
  /\ UNCHANGED <<due, closed, stands, scored, owed, cleaned, report>>

(* The entry of a test that went all the way: its cleanup is owed if it is *)
(* due, and it has a score only if its window was closed.                  *)
EnterComplete ==
  /\ Current \in Tests \cap launched
  /\ entries' = Append(entries, Current)
  /\ stands' \in {stands, stands \cup {Current}}
  /\ scored' \in {scored, scored \cup {Current}}
  /\ scored' # scored => Current \in closed \cap stands'
  /\ owed' = owed \cup ({Current} \cap due)
  /\ UNCHANGED <<due, launched, closed, cleaned, report>>

(* No test is begun: all have an entry and the report is published.        *)
Refuse ==
  /\ entries = <<>> /\ launched = {}
  /\ entries' = [t \in Tests |-> t]
  /\ report' = "written"
  /\ UNCHANGED <<due, launched, closed, stands, scored, owed, cleaned>>

Clean(t) ==
  /\ AllEntered /\ t \in owed
  /\ owed' = owed \ {t}
  /\ cleaned' = cleaned \cup {t}
  /\ UNCHANGED <<due, entries, launched, closed, stands, scored, report>>

Publish ==
  /\ AllEntered /\ owed = {}
  /\ report' = "written"
  /\ UNCHANGED <<due, entries, launched, closed, stands, scored, owed, cleaned>>

Next ==
  /\ report = "none"
  /\ \/ Launch \/ Close \/ Enter \/ EnterComplete \/ Refuse \/ Publish
     \/ \E t \in Tests : Clean(t)

Spec == Init /\ [][Next]_vars
=============================================================================
