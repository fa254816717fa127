-------------------------- MODULE MCEvidenceStore --------------------------
(* Small instances of EvidenceStore: u is an unsigned and v, w are signed   *)
(* uploads of one document; x is a signed upload of another.               *)
EXTENDS EvidenceStore
CONSTANTS u, v, w, x, shaA, shaB, compact, pretty, alice, bob, prune1, gc1, boot

MCShaOf == [r \in Requests |-> IF r = x THEN shaB ELSE shaA]

OneText == [r \in Requests |-> compact]

TwoTexts == [r \in Requests |-> IF r = u THEN pretty ELSE compact]

OneSigner == [r \in Requests |-> IF r = u THEN Absent ELSE alice]

TwoSigners == [r \in Requests |->
                  CASE r = u -> Absent [] r = v -> alice [] OTHER -> bob]
=============================================================================
