---------------------------- MODULE MC_HttpError ----------------------------
(* Two digits, reasons of up to three characters over a letter and a     *)
(* space, so that a reason holds a space of its own ("a a").              *)
EXTENDS HttpError

MCDigits == {"4", "0"}
MCLetters == {"a", " "}
=============================================================================
