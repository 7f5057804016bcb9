------------------------------ MODULE MCHistory ------------------------------
(* An instance of History: three days round the end of September.           *)
EXTENDS History

TheseDates == {<<9, 30>>, <<10, 1>>, <<10, 2>>}
=============================================================================
