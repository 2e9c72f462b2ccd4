---------------------------- MODULE MCCaptureRun ----------------------------
(* Instances of CaptureRun for TLC: captures of two contexts beside        *)
(* imports and deletes, and everything beside everything with one context. *)
EXTENDS CaptureRun, TLC

CONSTANTS x1, x2        \* contexts

Overlapping ==
    {[contexts |-> {x1, x2}, operations |-> {"capture", "import", "delete"}]}
    \cup {[contexts |-> {x}, operations |-> {"capture", "import", "pin", "delete", "prune"}] : x \in {x1, x2}}

Symmetry == Permutations(Procs) \cup Permutations(Tokens) \cup Permutations({x1, x2})
=============================================================================
