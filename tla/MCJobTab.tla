------------------------------ MODULE MCJobTab ------------------------------
(* Two jobs, a list that keeps one of them, a job that changes once, two pages*)
(* of jobs opened after each other, one configuration on the server and one in*)
(* a file. One connection or request of a page of jobs fails; one submit of a *)
(* page that was left may be on its way beside that of the page on screen.    *)
EXTENDS JobTab
=============================================================================
