-------------------------- MODULE MCFormulaEngine --------------------------
(* The result of a formula is one more than the sum of its operands, so it   *)
(* differs whenever one of them does.                                        *)
EXTENDS FormulaEngine

SumPlusOne(operands) == 1 + SumFunctionOnSet(operands, DOMAIN operands)
=============================================================================
