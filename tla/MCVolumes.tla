------------------------------- MODULE MCVolumes -------------------------------
(* Instances of Volumes, and the config files of other versions and programs. *)
EXTENDS Volumes, TLC

CONSTANTS t1, t2, p1, p2

TwoThreads   == {t1, t2}
TwoPasswords == {p1, p2}

\* The default, one that is too low, one that takes more memory than there is, and 1 << 63.
Costs        == {0, 9, 18, 63}

NameFlags == {{"PlaintextNames"}, {"PlaintextNames", "EMENames"},
              {"EMENames", "LongNames", "Raw64", "LongNameMax"}}

\* Config files of all combinations of flags ...
ForeignFlags ==
    [key : {0},
     set : [flags : {c \cup n : c \in SUBSET {"HKDF", "GCMIV128", "XChaCha20Poly1305", "AESSIV"},
                               n \in NameFlags} \cup {{"HKDF", "GCMIV128", "Unknown"}},
            longNameMax : {0, 100}],
     kdf : {NewScryptKDF(16)}]

\* ... or with no key, or with scrypt parameters at and beyond the limits.
Common == [flags |-> {"HKDF", "GCMIV128", "EMENames", "DirIV", "LongNames", "Raw64"}, longNameMax |-> 0]

ForeignKDFs ==
    LET k == NewScryptKDF(16)
    IN  {k, [k EXCEPT !.logN = 9], [k EXCEPT !.logN = 17], [k EXCEPT !.logN = 18]}
        \cup {[k EXCEPT !.logN = n, !.power = FALSE] : n \in {9, 16, 62}}
        \cup {[k EXCEPT !.r = n] : n \in {7, 17}}
        \cup {[k EXCEPT !.p = n] : n \in {0, 200000}}
        \cup {[k EXCEPT !.keyLen = n] : n \in {31, 64}}
        \cup {[k EXCEPT !.salt = 31]}

FromElsewhere == ForeignFlags \cup [key : {0, Empty}, set : {Common}, kdf : ForeignKDFs]

InitsCreates == {"init", "create"}

Symmetry == Permutations(Threads) \cup Permutations(Passwords)
=============================================================================
