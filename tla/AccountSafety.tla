---------------------------- MODULE AccountSafety ----------------------------
(***************************************************************************)
(* What must be true of an account, and what the comments of the code say  *)
(* that requests which interleave, or die half way, do not keep.           *)
(***************************************************************************)
EXTENDS Account

\* Type invariant: the row, the tokens and the requests keep the shape of
\* Account's records.
AccountTypeOK ==
    /\ user.address \in [Kinds -> Addresses \cup {None}]
    /\ user.verified \in [Kinds -> BOOLEAN]
    /\ user.balance \in 0 .. MaxBalance
    /\ \A t \in Tokens : /\ tokens[t].kind \in Kinds \cup {"none"}
                         /\ tokens[t].used \in BOOLEAN /\ tokens[t].expired \in BOOLEAN
    /\ \A w \in Workers : Len(request[w].todo) <= 7
    /\ proven \subseteq Addresses

Guessers == {w \in Workers : "wrongCode" \in Ops[w]}

\* The wrong codes that n requests at once can have answered while m counts are
\* left: one holds the count it has read, the others use up what is left, and then
\* it sets the count to one more than it read.
MostGuesses ==
    LET most[n \in 0 .. Cardinality(Guessers), m \in 0 .. MaxAttempts] ==
            IF n = 0 \/ m = 0 THEN 0 ELSE most[n - 1, m] + 1 + most[n, m - 1]
    IN  most[Cardinality(Guessers), MaxAttempts]

\* The lockout still limits the guesses at a code when requests that count at once
\* lose counts (_register_failed_attempt means to lose none): MAX_ATTEMPTS for one
\* request at a time, MostGuesses for more.
GuessesAreBounded == tried <= MostGuesses

Quiet == \A w \in Workers : Idle(w)

\* When no request is under way, an address that is marked verified is one whose
\* owner showed a link or code that was sent there: "the links of the previous
\* e-mail must not verify the new e-mail" (ProfileEditView.form_valid).
VerifiedWasProven ==
    Quiet => \A k \in Kinds : user.verified[k] => user.address[k] \in proven

\* The processes that send links and codes.
Senders == {w \in Workers : Ops[w] \cap {"send", "edit"} # {}}

\* "only the latest code remains valid" (send_verification_sms, and the same of
\* links in send_verification_email): one for each process that sends at the same
\* time, so the latest only when they are sent one after the other.
OnlyLatestIsValid ==
    \A k \in Kinds :
        Cardinality({t \in Tokens : tokens[t].kind = k /\ Usable(t)}) <= Cardinality(Senders)

\* "every balance change is atomic and recorded in a ledger": the balance is the
\* one the last ledger entry left.
BalanceIsBooked == user.balance = booked

=============================================================================
