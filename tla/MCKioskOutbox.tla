---------------------------- MODULE MCKioskOutbox ----------------------------
(* Small instances of KioskOutbox: values for the constants of the .cfg files. *)
EXTENDS KioskOutbox, TLC
CONSTANTS s1, f1, f2, t1, t2, p1, p2
OneSource       == {s1}
OneFlush        == {f1}
TwoFlushes      == {f1, f2}
OneTranslation  == {t1}
TwoTranslations == {t1, t2}
OneStaff        == {p1}
TwoStaff        == {p1, p2}
\* No definition chooses among the calls of one function.
Symmetry        == Permutations(Flushes) \cup Permutations(Translations) \cup Permutations(Staff)
=============================================================================
