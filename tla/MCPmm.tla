------------------------------- MODULE MCPmm -------------------------------
(* Bounds for checking Pmm: two or three words of two pages, counts that    *)
(* saturate at the number of owners a page may have.                        *)
EXTENDS Pmm
=============================================================================
