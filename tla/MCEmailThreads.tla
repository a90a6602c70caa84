--------------------------- MODULE MCEmailThreads ---------------------------
(* Two authors, a subject they share and none: three e-mails, so that an   *)
(* exchange goes back and forth twice or two authors meet in a thread.     *)
EXTENDS EmailThreads

MCAuthors == {1, 2}
MCSubjects == {Blank, NoSubject, 2}

MCOpenings == {<<1, 2, TRUE>>, <<2, 2, TRUE>>, <<2, Blank, FALSE>>}
=============================================================================
