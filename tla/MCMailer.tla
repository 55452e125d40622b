------------------------------ MODULE MCMailer ------------------------------
(* A small instance of Mailer: a message larger than the pipe.               *)
EXTENDS Mailer, TLC
=============================================================================
