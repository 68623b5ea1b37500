------------------------------ MODULE SambaFlash ------------------------------
(***************************************************************************)
(* What flash_firmware() writes to a device in its bootloader              *)
(* (src/src/session.cpp): words into the flash buffer, and at the end of   *)
(* each page a command that commits it.                                    *)
(***************************************************************************)
EXTENDS Integers, FiniteSets

PageSize == 256
WordSize == 4

\* The file is filled up to whole pages; a file of whole pages gets one more.
FirmwareSize(size) == size + (PageSize - (size % PageSize))

\* Positions at which a word is written, in order.
Words(size) == {pos \in 0 .. FirmwareSize(size) - 1 : pos % WordSize = 0}

\* Mutant: the boundary is looked for one word late.
PageStarts(pos) == pos % PageSize = 0
\* (pos & 0xFC) == 0xFC: the word is the last of a page.
PageEnds(pos) == (pos % PageSize) \div WordSize = PageSize \div WordSize - 1

\* The page numbers committed, as (position after which, number).
Commits(size) ==
  {<<pos, Cardinality({p \in Words(size) : p < pos /\ PageEnds(p)})>> :
     pos \in {p \in Words(size) : PageEnds(p)}}

\* The digits that "%.2X" prints a page number with.
Digits(page) == IF page < 256 THEN 2 ELSE 3

=============================================================================
