--------------------------- MODULE MCEstateHistory ---------------------------
(* Two contexts of one vCenter; the second does not see the second VM, nor *)
(* the second datastore.                                                   *)
EXTENDS EstateHistory

VMsSeen == (1 :> {"u1", "u2", "u3", "u4"}) @@ (2 :> {"u1", "u3", "u4"})
StoresSeen == (1 :> {"d1", "d2"}) @@ (2 :> {"d1"})
Endings == {(1 :> "ok") @@ (2 :> "ok"), (1 :> "unreachable") @@ (2 :> "ok"),
            (1 :> "no cluster") @@ (2 :> "unreachable"), (1 :> "no vm") @@ (2 :> "no index")}

(* A change is logged before the start of the capture before it, or after  *)
(* the end of the one that sees it.                                        *)
SkewsSeen == {-3, 4}
=============================================================================
