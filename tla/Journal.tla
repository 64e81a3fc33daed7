------------------------------ MODULE Journal -------------------------------
(***************************************************************************)
(* What the posting service promises its callers, whatever store is behind *)
(* it: a posting_id is booked at most once, by one admissible request, for *)
(* ever; a caller who is told that its posting is booked is told of the    *)
(* one that really is.  A refusal promises nothing: the posting may have   *)
(* been booked all the same, by this request or by another.                *)
(***************************************************************************)
EXTENDS Integers, Sequences, TLAPS

CONSTANTS
    Requests,    \* the requests callers may submit, any number of times
    Ids,         \* posting ids
    IdOf,        \* the posting id of a request
    Admissible,  \* the requests post does not refuse out of hand
    Nobody       \* marks an id that is not booked

JournalConstants == /\ IdOf \in [Requests -> Ids]
                    /\ Admissible \subseteq Requests
                    /\ Nobody \notin Requests

VARIABLES
    book,    \* posting id -> the request that booked it, or Nobody
    answer   \* request -> what its caller was last told

vars == <<book, answer>>

\* What a caller was told, and whose posting it was told of.
Told(what, by) == [what |-> what, by |-> by]
Answers == [what : {"nothing", "refused", "booked"}, by : Requests \cup {Nobody}]

TypeOK == /\ book \in [Ids -> Requests \cup {Nobody}]
          /\ answer \in [Requests -> Answers]

Init == /\ book = [i \in Ids |-> Nobody]
        /\ answer = [r \in Requests |-> Told("nothing", Nobody)]

\* The request becomes the booked one; its caller is not answered yet, is told of
\* it, or is refused although it has been booked.
Book(r) == /\ r \in Admissible
           /\ book[IdOf[r]] = Nobody
           /\ book' = [book EXCEPT ![IdOf[r]] = r]
           /\ \/ answer' = answer
              \/ answer' = [answer EXCEPT ![r] = Told("booked", r)]
              \/ answer' = [answer EXCEPT ![r] = Told("refused", Nobody)]

\* The caller is told which request is booked under its id.
Answer(r) == /\ book[IdOf[r]] # Nobody
             /\ answer' = [answer EXCEPT ![r] = Told("booked", book[IdOf[r]])]
             /\ UNCHANGED book

Refuse(r) == /\ answer' = [answer EXCEPT ![r] = Told("refused", Nobody)]
             /\ UNCHANGED book

Next == \E r \in Requests : Book(r) \/ Answer(r) \/ Refuse(r)

Spec == Init /\ [][Next]_vars

\* Whoever was once told that its posting is booked was told of the request that
\* holds its id now, and that request passed validation: no later submission,
\* retry or failure makes an answer wrong (Store::post).
AnswerIsBooked ==
    \A r \in Requests :
        answer[r].what = "booked" =>
            answer[r].by = book[IdOf[r]] /\ answer[r].by \in Admissible

-----------------------------------------------------------------------------
(* The promise holds for every set of requests and ids; a store that       *)
(* implements Journal inherits it.                                         *)

\* AnswerIsBooked is not inductive: Answer passes on whatever is in the book, so
\* the book must be known to hold admissible requests only.
BookIsAdmissible == \A i \in Ids : book[i] # Nobody => book[i] \in Admissible

JournalInv == TypeOK /\ BookIsAdmissible /\ AnswerIsBooked

\* A caller that has been told its posting is booked holds an answer that stays
\* true for ever: the request it names has its id and was admissible (Store::post).
THEOREM JournalKeepsItsWord ==
  ASSUME JournalConstants
  PROVE  Spec => [](TypeOK /\ AnswerIsBooked)
<1>1. Init => JournalInv
  BY JournalConstants DEF JournalConstants, Init, JournalInv, TypeOK, BookIsAdmissible, AnswerIsBooked,
                              Told, Answers
<1>2. JournalInv /\ [Next]_vars => JournalInv'
  <2> SUFFICES ASSUME JournalInv, [Next]_vars PROVE JournalInv'
    OBVIOUS
  <2> USE DEF JournalConstants, JournalInv, TypeOK, BookIsAdmissible, AnswerIsBooked,
                              Told, Answers
  <2>1. ASSUME NEW r \in Requests, Book(r) PROVE JournalInv'
    \* Nobody's answer names a request for the id, for the id was free.
    <3>1. \A q \in Requests : IdOf[q] = IdOf[r] => answer[q].what # "booked"
      BY <2>1 DEF Book
    <3>2. TypeOK'
      BY <2>1 DEF Book
    <3> BookIsAdmissible'
      BY <2>1 DEF Book
    <3>3. ASSUME NEW q \in Requests, answer'[q].what = "booked"
          PROVE  answer'[q].by = book'[IdOf[q]] /\ answer'[q].by \in Admissible
      <4>1. CASE IdOf[q] = IdOf[r]
        <5>1. q = r
          BY <2>1, <3>1, <3>3, <4>1 DEF Book
        <5>2. answer'[r] = [what |-> "booked", by |-> r]
          BY <2>1, <3>1, <3>3, <5>1 DEF Book
        <5>3. book'[IdOf[r]] = r
          BY <2>1 DEF Book
        <5> QED
          BY <2>1, <5>1, <5>2, <5>3 DEF Book
      <4>2. CASE IdOf[q] # IdOf[r]
        BY <2>1, <3>3, <4>2 DEF Book
      <4> QED
        BY <4>1, <4>2
    <3> QED
      BY <3>2, <3>3
  <2>2. ASSUME NEW r \in Requests, Answer(r) PROVE JournalInv'
    <3>1. TypeOK'
      BY <2>2 DEF Answer
    <3>2. book[IdOf[r]] \in Admissible
      BY <2>2 DEF Answer
    <3> QED
      BY <2>2, <3>1, <3>2 DEF Answer
  <2>3. ASSUME NEW r \in Requests, Refuse(r) PROVE JournalInv'
    BY <2>3 DEF Refuse
  <2>4. CASE UNCHANGED vars
    BY <2>4 DEF vars
  <2> QED
    BY <2>1, <2>2, <2>3, <2>4 DEF Next
<1>3. JournalInv => TypeOK /\ AnswerIsBooked
  BY DEF JournalInv
<1> QED
  BY <1>1, <1>2, <1>3, PTL DEF Spec
=============================================================================
