--------------------------- MODULE MCSettingsFile ---------------------------
(* Instances of SettingsFile for TLC. *)
EXTENDS SettingsFile

CONSTANTS r1, r2, Main

Nothing == [Other("page") EXCEPT !.kind = "patch"]
Whole == [kind |-> "form", auth |-> FALSE, early |-> 0, assets |-> FALSE,
          late |-> 0, proof |-> TRUE]

\* PATCHes: to turn authentication on, with passwords that pass and without, one
\* that cannot be stored; the whole form, a dismissal and a page.
MCForms ==
  { [Nothing EXCEPT !.auth = TRUE, !.proof = TRUE], [Nothing EXCEPT !.auth = TRUE],
    [Nothing EXCEPT !.early = Bad],
    [Whole EXCEPT !.early = 1, !.assets = TRUE], Other("dismiss"), Other("page") }

\* One PATCH that takes two settings to the other side of the default assets
MCSwitch == {[Nothing EXCEPT !.early = 1, !.assets = TRUE]}

=============================================================================
