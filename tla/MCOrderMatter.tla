---------------------------- MODULE MCOrderMatter ----------------------------
(* Instances of OrderMatter: one order placed, prepared and converted, with  *)
(* requests that race, repeat or contradict those of the ordinary course,    *)
(* one of them for the matter of another source.                             *)
EXTENDS OrderMatter, TLC

CONSTANTS s1, s2, o1, o2, m1, m2, m3

Blank == [op |-> "create", key |-> 0, source |-> s1, order |-> o1, expected |-> 0,
          matter |-> m1, filled |-> FALSE, scope |-> FALSE]
Other == [Blank EXCEPT !.source = s2, !.matter = m3]

Prepare(r) ==
    { [r EXCEPT !.op = "create_draft"],
      [r EXCEPT !.op = "edit", !.expected = 1, !.filled = TRUE, !.scope = TRUE],
      [r EXCEPT !.op = "evaluate", !.expected = 2] }

(* The other source's matter, created directly. *)
Elsewhere == Prepare(Other) \cup {[Other EXCEPT !.key = 8, !.op = "open_matter", !.expected = 3]}

Ordinary ==
    { [Blank EXCEPT !.key = 1],
      [Blank EXCEPT !.key = 2, !.op = "request_confirmation", !.expected = 1],
      [Blank EXCEPT !.key = 3, !.op = "confirm", !.expected = 2],
      [Blank EXCEPT !.key = 4, !.op = "ready", !.expected = 3],
      [Blank EXCEPT !.key = 5, !.op = "convert", !.expected = 4] }

Rivals ==
    { [Blank EXCEPT !.key = 6, !.order = o2],
      [Blank EXCEPT !.key = 4, !.op = "cancel", !.expected = 3],
      [Blank EXCEPT !.key = 7, !.op = "cancel", !.expected = 4],
      [Blank EXCEPT !.key = 8, !.op = "cancel", !.expected = 5],
      [Blank EXCEPT !.key = 6, !.op = "link", !.expected = 4, !.matter = m2],
      [Blank EXCEPT !.key = 8, !.op = "link", !.expected = 4, !.matter = m3],
      [Blank EXCEPT !.key = 5, !.op = "open_matter", !.expected = 3, !.matter = m2],
      [Blank EXCEPT !.op = "edit", !.expected = 3, !.scope = TRUE] }

MCRequests == Prepare(Blank) \cup Ordinary \cup Rivals \cup Elsewhere

(* Bound: the other source keeps its confirmation and has its matter, its   *)
(* requests over, when the first source is confirmed.                        *)
ElsewhereFirst ==
    /\ confirmation[s2] # "WITHDRAWN"
    /\ confirmation[s1] # "NONE" => MatterExists(m3) /\ \A c \in Clients : req[c] \notin Elsewhere

Symmetry == Permutations(Clients)

(* A formal matter rests on a preparation whose blocking checks pass, its    *)
(* draft being READY and READY drafts not edited.  MatterDraftService.update *)
(* edits them and leaves their readiness as it was.                          *)
MatterMeetsChecks == \A m \in Matters : MatterExists(m) => matter[m].filled /\ matter[m].scope
==============================================================================
