---------------------------- MODULE MCConfigPages ----------------------------
(* The empty form, one with only a workbook dropped, and a valid one with and *)
(* without its workbooks.                                                     *)
EXTENDS ConfigPages, TLC

CONSTANTS empty, dropped_only, a, a_files
MCPersistable == [x \in Contents |-> CASE x = dropped_only -> empty
                                       [] x = a_files -> a
                                       [] OTHER -> x]
==============================================================================
