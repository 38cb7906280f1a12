---------------------------- MODULE MCRadioControl ----------------------------
(* Instances of RadioControl for TLC: gain tables of the R820T kind, of the     *)
(* E4000 kind (which starts at -1 dB) and of a tuner getTunerGains knows none   *)
(* for.                                                                         *)
EXTENDS RadioControl, TLC

R82xxGains == <<0, 9>>
E4kGains   == <<-10, 15, 40>>
NoGains    == <<>>

CallerSymmetry == Permutations(Callers)

OneTable   == {R82xxGains}
SomeTables == {R82xxGains, NoGains}
E4kTable   == {E4kGains}
=============================================================================
