----------------------------- MODULE MCQRSymbol -----------------------------
(***************************************************************************)
(* Symbols of every shape: one block (1-L, 1-H, 2-M), short blocks only    *)
(* (3-Q), short and long blocks (5-Q), version information and six         *)
(* alignment markers (7-L), the four Micro QR versions, with and without   *)
(* the half codeword.                                                      *)
(***************************************************************************)
EXTENDS QRSymbol

Kind(mqr, version, level) == [mqr |-> mqr, version |-> version, level |-> level]

MCKinds == {Kind(FALSE, 1, "L"), Kind(FALSE, 1, "H"), Kind(FALSE, 2, "M"), Kind(FALSE, 3, "Q"),
            Kind(FALSE, 5, "Q"), Kind(FALSE, 7, "L"),
            Kind(TRUE, 1, "L"), Kind(TRUE, 2, "M"), Kind(TRUE, 3, "L"), Kind(TRUE, 4, "Q")}

\* An uneven message with a codeword of zero, and the padding 0xec, 0x11.
MCPayloads == {<<{2, 3, 5, 6, 7}, {0, 4}>>,
               <<{6}, {0, 1, 5, 7}, {}, {1, 4, 6}, {0, 2, 3, 7}>>}

MCGfPoly == {0, 2, 3, 4, 8}
=============================================================================
