------------------------------ MODULE MCPaging ------------------------------
(* A table of up to three rows, with the int32 of the code cut to four     *)
(* bits: every offset and page size an int can hold is tried.              *)
EXTENDS Paging

AnyInt == MinInt..MaxInt
MCBodies ==
  {NoBody} \union [offset : AnyInt, pageSize : AnyInt]
           \union [offset : AnyInt] \union [pageSize : AnyInt]
=============================================================================
