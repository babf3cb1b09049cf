---------------------------- MODULE MCPagination ----------------------------
(* Instances of Pagination for TLC.                                        *)
EXTENDS PaginationProps

\* All rows, and the rows but one.
AllOrFew == {Ids, Ids \ {CHOOSE i \in Ids : \A j \in Ids : i <= j}}

=============================================================================
