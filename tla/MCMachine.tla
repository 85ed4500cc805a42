----------------------------- MODULE MCMachine ------------------------------
(* Programs for TLC: those of the repository's tests and examples, and      *)
(* the generated families.                                                 *)
EXTENDS Reference, Compiler, Prelude, Families

AllPrograms == Examples \o FlatMatches \o Scopes \o EffectPrograms

CompiledPrograms == Map(Compile, AllPrograms)
CompiledPattern == Map(Compile, PatternExample)
CompiledNested == Map(Compile, NestedExample)
=============================================================================
