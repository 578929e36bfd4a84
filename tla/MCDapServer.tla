---------------------------- MODULE MCDapServer ----------------------------
EXTENDS DapServer, TLC

Symmetry == Permutations(Resumes)
=============================================================================
