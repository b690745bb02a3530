------------------------------ MODULE HttpError ------------------------------
(***************************************************************************)
(* server_html/error/http_error.rs: an HttpError wraps a StatusCode; take *)
(* consumes it and splits its text "<code> <reason>" into the code and    *)
(* the reason.  A string is a sequence of characters; the reason phrases  *)
(* of StatusCode (not under src/) are built from a letter and a space.    *)
(***************************************************************************)
EXTENDS Naturals, Sequences, SequencesExt

CONSTANTS Digits,     \* characters of a numeric code
          Letters,    \* characters of a reason phrase, a space among them
          MaxReason   \* longest reason phrase

Space == " "
ASSUME Space \in Letters

VARIABLES
    err,      \* the HttpError's status code text, or <<>> once consumed
    result    \* what the last take returned, or NoResult

vars == <<err, result>>

NoResult == [code |-> <<>>, reason |-> <<>>]

(* StatusCode::to_string: a three-digit code, a space and a reason that   *)
(* starts with a letter.                                                  *)
Codes == [1..3 -> Digits]
Reasons == {r \in BoundedSeq(Letters, MaxReason) : r # <<>> /\ r[1] # Space}
StatusLines == {c \o <<Space>> \o r : c \in Codes, r \in Reasons}

(* Reference: the text before the first space, and the text after it.    *)
SplitAtFirstSpace(s) ==
    LET i == SelectInSeq(s, LAMBDA ch : ch = Space)
    IN [code |-> SubSeq(s, 1, i - 1), reason |-> SubSeq(s, i + 1, Len(s))]

(* Mutant: the split is taken one character too far.                     *)
SplitOff4(s) ==
    [code |-> SubSeq(s, 1, 4), reason |-> SubSeq(s, 6, Len(s))]

(* Mutant: the first character of the tail is kept.                      *)
SplitOffNoRemove(s) ==
    [code |-> SubSeq(s, 1, 3), reason |-> SubSeq(s, 4, Len(s))]

(* take: code.split_off(3) leaves the code and returns the tail; the      *)
(* tail's first character (the separator) is removed.                     *)
SplitOff(s) ==
    LET code == SubSeq(s, 1, 3)
        tail == SubSeq(s, 4, Len(s))
    IN [code |-> code, reason |-> Tail(tail)]

(* HttpError::new and From<StatusCode>: wrap a status code.               *)
New(s) ==
    /\ err' = s
    /\ UNCHANGED result

(* take(self): consumes the error and returns the pair.                   *)
Take ==
    /\ err # <<>>
    /\ result' = SplitOff(err)
    /\ err' = <<>>

Init ==
    /\ err = <<>>
    /\ result = NoResult

Next == (\E s \in StatusLines : New(s)) \/ Take

Spec == Init /\ [][Next]_vars

-----------------------------------------------------------------------------
TypeOK ==
    /\ err \in StatusLines \cup {<<>>}
    /\ result \in {NoResult} \cup [code: Seq(Digits), reason: Seq(Letters)]

(* take returns exactly the code and the reason the status line was made *)
(* of: split_off(3) and remove(0) agree with splitting at the first space *)
(* for every status code, whatever its reason phrase.                     *)
TakeMatchesReference ==
    [][err # <<>> /\ err' = <<>> => result' = SplitAtFirstSpace(err)]_vars

=============================================================================
