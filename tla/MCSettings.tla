----------------------------- MODULE MCSettings -----------------------------
(***************************************************************************)
(* Small instances of Settings for TLC.                                    *)
(***************************************************************************)
EXTENDS Settings, TLC

CONSTANTS r1, r2, p1

NoField == [k \in Keys |-> Nil]

\* One spec with a text, a switch and a password, one with other keys.
Contest == [fields |-> [NoField EXCEPT !["ctf_name"] = "contest", !["paused"] = "true"],
            mail |-> TRUE]
Teams == [fields |-> [NoField EXCEPT !["user_mode"] = "teams", !["paused"] = "false"],
          mail |-> FALSE]

MCSpecs == {Contest, Teams}
MCContest == {Contest}

OfConfiguration == [r \in Resources |-> 1]
=============================================================================
