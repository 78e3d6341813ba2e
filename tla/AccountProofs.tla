---------------------------- MODULE AccountProofs ----------------------------
(***************************************************************************)
(* Proofs about Account for every number of workers, tokens and addresses. *)
(* What a page of the profile has still to do is a sequence of statements; *)
(* the invariants say what each statement on it may rely on.               *)
(***************************************************************************)
EXTENDS AccountSafety, SequenceTheorems, FiniteSetTheorems, TLAPS

-----------------------------------------------------------------------------
(* The shape of the rows and of the statements.                            *)

UserRow == [address : [Kinds -> Addresses \cup {None}], verified : [Kinds -> BOOLEAN],
            balance : 0 .. MaxBalance]

Token == [kind : Kinds \cup {"none"}, address : Addresses \cup {None},
          used : BOOLEAN, expired : BOOLEAN]

OfAnAddress == {"void", "create", "reset", "confirm"} \X Kinds

OfTheRow == {<<"save", "row">>, <<"forget", "attempts">>, <<"read", "attempts">>}

Statements == OfAnAddress \cup OfTheRow \cup ({"spend"} \X Tokens) \cup ({"write"} \X Nat)

Todo(w) == request[w].todo

Steps(w) == 1 .. Len(Todo(w))

Has(w, s) == \E i \in Steps(w) : Todo(w)[i] = s

Shape ==
    /\ user \in UserRow /\ attempts \in Nat /\ proven \subseteq Addresses
    /\ tokens \in [Tokens -> Token]
    /\ request \in [Workers -> [user : UserRow, todo : Seq(Statements)]]

\* Links and codes are only sent to addresses.
SentToAddresses ==
    /\ \A t \in Tokens : tokens[t].kind # "none" => tokens[t].address \in Addresses
    /\ \A w \in Workers, k \in Kinds :
          Has(w, <<"create", k>>) => request[w].user.address[k] \in Addresses

TypeInv == Shape /\ SentToAddresses /\ \A w \in Workers : Len(Todo(w)) <= 7

\* The statements are told apart by their names.
LEMMA HeadFacts ==
    ASSUME Shape, NEW w \in Workers, NEW what, Statement(w, what)
    PROVE  /\ 1 \in Steps(w) /\ Todo(w)[1] = <<what, Argument(w)>>
           /\ Todo(w)[1] \in Statements
<1> PICK T \in Seq(Statements) : T = Todo(w)
  BY DEF Shape, Todo
<1>1. T # <<>> /\ Head(T)[1] = what /\ Argument(w) = Head(T)[2]
  BY DEF Statement, Argument, Todo
<1>2. Len(T) \in Nat /\ Len(T) > 0 /\ Head(T) = T[1] /\ T[1] \in Statements
  BY <1>1, EmptySeq, HeadTailProperties, ElementOfSeq
<1>3. PICK a, b : T[1] = <<a, b>>
  BY <1>2 DEF Statements, OfAnAddress, OfTheRow
<1> QED BY <1>1, <1>2, <1>3 DEF Steps

\* An idle worker's request.
LEMMA NoRequestShape ==
    /\ NoRequest.user \in UserRow /\ NoRequest.todo = <<>>
    /\ NoRequest \in [user : UserRow, todo : Seq(Statements)]
<1>1. NoRequest.user \in UserRow
  BY AccountAssumption DEF NoRequest, UserRow
<1>2. <<>> \in Seq(Statements)
  BY EmptySeq
<1>3. NoRequest = [user |-> NoRequest.user, todo |-> <<>>]
  BY DEF NoRequest
<1>4. \A row \in UserRow, T \in Seq(Statements) :
         [user |-> row, todo |-> T] \in [user : UserRow, todo : Seq(Statements)]
  OBVIOUS
<1>5. NoRequest.todo = <<>>
  BY DEF NoRequest
<1>6. NoRequest \in [user : UserRow, todo : Seq(Statements)]
  BY <1>1, <1>2, <1>3, <1>4, Zenon
<1> QED BY <1>1, <1>5, <1>6

\* After a statement the others are left, in their order.
LEMMA DoneFacts ==
    ASSUME Shape, NEW w \in Workers, Todo(w) # <<>>, Done(w)
    PROVE  /\ request' \in [Workers -> [user : UserRow, todo : Seq(Statements)]]
           /\ \A v \in Workers \ {w} : request'[v] = request[v]
           /\ Todo(w)' \in Seq(Statements)
           /\ Len(Todo(w)) \in Nat /\ Len(Todo(w))' = Len(Todo(w)) - 1
           /\ \A i \in Steps(w)' : i + 1 \in Steps(w) /\ i \in Nat /\ Todo(w)'[i] = Todo(w)[i + 1]
           /\ Steps(w)' # {} => request'[w].user = request[w].user
<1> PICK T \in Seq(Statements) : T = Todo(w)
  BY DEF Shape, Todo
<1> PICK q \in [user : UserRow, todo : Seq(Statements)] : q = request[w]
  BY DEF Shape
<1>1. Len(T) \in Nat /\ Len(T) > 0 /\ q.todo = T
  BY EmptySeq, LenProperties DEF Todo
<1>2. NoRequest \in [user : UserRow, todo : Seq(Statements)] /\ NoRequest.todo = <<>>
  BY NoRequestShape
<1>3. /\ Tail(T) \in Seq(Statements) /\ Len(Tail(T)) = Len(T) - 1
      /\ \A i \in 1 .. Len(Tail(T)) : Tail(T)[i] = T[i + 1]
  BY <1>1, HeadTailProperties, EmptySeq
<1>4. request' = IF Tail(T) = <<>> THEN [request EXCEPT ![w] = NoRequest]
                  ELSE [request EXCEPT ![w].todo = Tail(T)]
  BY DEF Done, Todo
<1>5. CASE Tail(T) = <<>>
  <2>1. request' = [request EXCEPT ![w] = NoRequest]
    BY <1>4, <1>5
  <2>2. Todo(w)' = <<>>
    BY <1>2, <2>1 DEF Shape, Todo
  <2>3. Len(Tail(T)) = 0 /\ Len(Todo(w)') = 0
    BY <1>5, <2>2, EmptySeq
  <2>4. Steps(w)' = {}
    BY <2>3 DEF Steps
  <2>5. Len(T) = 1 /\ Todo(w)' \in Seq(Statements)
    BY <1>1, <1>3, <2>2, <2>3, EmptySeq
  <2> QED BY <1>1, <1>2, <2>1, <2>3, <2>4, <2>5 DEF Shape
<1>6. CASE Tail(T) # <<>>
  <2> DEFINE rest == [q EXCEPT !.todo = Tail(T)]
  <2>1. request' = [request EXCEPT ![w] = rest]
    BY <1>4, <1>6
  <2>2. rest \in [user : UserRow, todo : Seq(Statements)] /\ rest.todo = Tail(T) /\ rest.user = q.user
    BY <1>3
  <2> HIDE DEF rest
  <2>3. Todo(w)' = Tail(T) /\ request'[w].user = request[w].user
    BY <2>1, <2>2 DEF Shape, Todo
  <2>4. \A i \in Steps(w)' : i \in Nat /\ i + 1 \in Steps(w)
    BY <1>1, <1>3, <2>3 DEF Steps
  <2> QED BY <1>1, <1>3, <2>1, <2>2, <2>3, <2>4 DEF Shape, Steps
<1> QED BY <1>5, <1>6

\* A statement that is left was there before.
LEMMA DoneHas ==
    ASSUME Shape, NEW w \in Workers, Todo(w) # <<>>, Done(w), NEW v \in Workers, NEW s, Has(v, s)'
    PROVE  Has(v, s) /\ request'[v].user = request[v].user
<1>1. CASE v = w
  BY <1>1, DoneFacts DEF Has
<1>2. CASE v # w
  BY <1>2, DoneFacts DEF Has, Steps, Todo
<1> QED BY <1>1, <1>2

-----------------------------------------------------------------------------
(* What the pages plan.                                                    *)

Planned(k, address) == IF address[k] = user.address[k] THEN <<>> ELSE AfterChange(k, address[k])

\* r is s and then t.
Joined(r, s, t) ==
    /\ Len(s) \in Nat /\ Len(t) \in Nat /\ Len(r) = Len(s) + Len(t)
    /\ \A i \in 1 .. Len(s) : r[i] = s[i]
    /\ \A i \in 1 .. Len(t) : r[Len(s) + i] = t[i]

\* Two plans, one after the other.
LEMMA Concatenated ==
    ASSUME NEW X, NEW s \in Seq(X), NEW t \in Seq(X)
    PROVE  s \o t \in Seq(X) /\ Joined(s \o t, s, t)
<1>1. Len(s) \in Nat /\ Len(t) \in Nat
  BY LenProperties
<1> QED BY <1>1, ConcatProperties DEF Joined

\* The statements that follow a change of an address.
LEMMA AfterChangeFacts ==
    ASSUME NEW k \in Kinds, NEW address, NEW S, S = AfterChange(k, address)
    PROVE  /\ S \in Seq(Statements) /\ Len(S) \in {2, 4}
           /\ S[1] = <<"reset", k>> /\ S[2] = <<"void", k>>
           /\ Len(S) = 4 <=> (k = "email" /\ address # None)
           /\ Len(S) = 4 => S[3] = <<"void", k>> /\ S[4] = <<"create", k>>
<1> DEFINE s == <<<<"reset", k>>, <<"void", k>>>>
           t == IF k = "email" /\ address # None THEN Send(k) ELSE <<>>
<1>1. s \in Seq(Statements) /\ Len(s) = 2 /\ s[1] = <<"reset", k>> /\ s[2] = <<"void", k>>
  BY DEF Statements, OfAnAddress
<1>2. Send(k) \in Seq(Statements) /\ Len(Send(k)) = 2
      /\ Send(k)[1] = <<"void", k>> /\ Send(k)[2] = <<"create", k>>
  BY DEF Statements, OfAnAddress, Send
<1>3. S = s \o t
  BY DEF AfterChange
<1>4. CASE k = "email" /\ address # None
  <2>1. t = Send(k)
    BY <1>4
  <2> HIDE DEF s, t
  <2>2. S \in Seq(Statements) /\ Joined(S, s, t)
    BY <1>1, <1>2, <1>3, <2>1, Concatenated
  <2>3. Len(t) = 2 /\ t[1] = <<"void", k>> /\ t[2] = <<"create", k>>
    BY <1>2, <2>1
  <2>4. Len(s) = 2 /\ Len(t) \in {0, 2} /\ Joined(S, s, t)
    BY <1>1, <2>2, <2>3
  <2>5. Len(S) = 2 + Len(t) /\ S[1] = s[1] /\ S[2] = s[2] /\ S[3] = t[1] /\ S[4] = t[2]
    BY <2>3, <2>4 DEF Joined
  <2>6. Len(S) = 4
    BY <2>3, <2>5
  <2>7. S[1] = <<"reset", k>> /\ S[2] = <<"void", k>> /\ S[3] = <<"void", k>> /\ S[4] = <<"create", k>>
    BY <1>1, <2>3, <2>5, Zenon
  <2> QED BY <1>4, <2>2, <2>6, <2>7
<1>5. CASE ~(k = "email" /\ address # None)
  <2>1. t = <<>>
    BY <1>5
  <2> HIDE DEF s, t
  <2>2. S = s
    BY <1>1, <1>3, <2>1, ConcatEmptySeq
  <2>3. S \in Seq(Statements) /\ Len(S) = 2 /\ S[1] = <<"reset", k>> /\ S[2] = <<"void", k>>
    BY <1>1, <2>2, Zenon
  <2> QED BY <1>5, <2>3
<1> QED BY <1>4, <1>5

\* What is known of a plan of three parts by its positions.
LEMMA ThreeParts ==
    ASSUME NEW a, NEW e, NEW p, NEW ae, NEW S, Joined(ae, a, e), Joined(S, ae, p),
           Len(a) = 1, Len(e) \in {0, 2, 4}, Len(p) \in {0, 2}
    PROVE  /\ Len(S) = 1 + Len(e) + Len(p) /\ S[1] = a[1]
           /\ Len(e) > 0 => S[2] = e[1] /\ S[3] = e[2]
           /\ Len(e) = 4 => S[4] = e[3] /\ S[5] = e[4]
           /\ Len(p) > 0 => S[Len(S) - 1] = p[1] /\ S[Len(S)] = p[2]
           /\ \A i \in 1 .. Len(S) :
                 \/ i = 1
                 \/ Len(e) > 0 /\ i \in {2, 3}
                 \/ Len(e) = 4 /\ i \in {4, 5}
                 \/ Len(p) > 0 /\ i \in {Len(S) - 1, Len(S)}
<1> PICK m \in {0, 2, 4} : m = Len(e)
  OBVIOUS
<1> PICK n \in {0, 2} : n = Len(p)
  OBVIOUS
<1>1. /\ Len(ae) = 1 + m
      /\ \A i \in 1 .. 1 : ae[i] = a[i]
      /\ \A i \in 1 .. m : ae[1 + i] = e[i]
  BY DEF Joined
<1>2. /\ Len(S) = 1 + m + n
      /\ \A i \in 1 .. 1 + m : S[i] = ae[i]
      /\ \A i \in 1 .. n : S[1 + m + i] = p[i]
  BY <1>1 DEF Joined
<1>3. S[1] = a[1]
  BY <1>1, <1>2
<1>4. ASSUME m > 0 PROVE S[2] = e[1] /\ S[3] = e[2]
  BY <1>1, <1>2, <1>4
<1>5. ASSUME m = 4 PROVE S[4] = e[3] /\ S[5] = e[4]
  BY <1>1, <1>2, <1>5
<1>6. ASSUME n > 0 PROVE S[Len(S) - 1] = p[1] /\ S[Len(S)] = p[2]
  BY <1>2, <1>6
<1>7. ASSUME NEW i \in 1 .. Len(S)
      PROVE  \/ i = 1
             \/ m > 0 /\ i \in {2, 3}
             \/ m = 4 /\ i \in {4, 5}
             \/ n > 0 /\ i \in {Len(S) - 1, Len(S)}
  <2>1. i \in Int /\ 1 <= i /\ i <= 1 + m + n
    BY <1>2
  <2>2. CASE i <= 1 + m
    <3>1. m = 0 => i = 1
      BY <2>1, <2>2
    <3>2. m = 2 => i = 1 \/ i \in {2, 3}
      BY <2>1, <2>2
    <3>3. m = 4 => i = 1 \/ i \in {2, 3} \/ i \in {4, 5}
      BY <2>1, <2>2
    <3> QED BY <3>1, <3>2, <3>3
  <2>3. CASE i > 1 + m
    BY <1>2, <2>1, <2>3
  <2> QED BY <2>1, <2>2, <2>3
<1> QED BY <1>2, <1>3, <1>4, <1>5, <1>6, <1>7

EditSteps(address) ==
    <<<<"save", "row">>>> \o Planned("email", address) \o Planned("phone", address)

\* S saves the row first; what follows is only for an address that changed, and
\* a new link is made when the old ones are void.
IsEditPlan(S, address) ==
    /\ S \in Seq(Statements) /\ Len(S) \in 1 .. 7
    /\ S[1] = <<"save", "row">>
    /\ \A i \in 1 .. Len(S) :
          \/ i = 1
          \/ \E k \in Kinds : S[i] \in {<<"reset", k>>, <<"void", k>>}
          \/ /\ S[i] = <<"create", "email">> /\ i = 5 /\ S[3] = <<"void", "email">>
             /\ address["email"] # None
    /\ \A k \in Kinds : address[k] # user.address[k] =>
          \E i, j \in 1 .. Len(S) : S[i] = <<"reset", k>> /\ S[j] = <<"void", k>>

\* The plan of the profile page: save, then what each change needs.
LEMMA EditPlanFacts ==
    ASSUME NEW address, NEW a, NEW e, NEW p, NEW ae, NEW S \in Seq(Statements),
           Joined(ae, a, e), Joined(S, ae, p), Len(a) = 1, a[1] = <<"save", "row">>,
           e = Planned("email", address), p = Planned("phone", address)
    PROVE  IsEditPlan(S, address)
<1>1. /\ Len(e) \in {0, 2, 4}
      /\ Len(e) > 0 <=> address["email"] # user.address["email"]
      /\ Len(e) > 0 => e[1] = <<"reset", "email">> /\ e[2] = <<"void", "email">>
      /\ Len(e) = 4 => e[4] = <<"create", "email">> /\ e[3] = <<"void", "email">> /\ address["email"] # None
  BY AfterChangeFacts, EmptySeq DEF Planned, Kinds
<1>2. /\ Len(p) \in {0, 2}
      /\ Len(p) > 0 <=> address["phone"] # user.address["phone"]
      /\ Len(p) > 0 => p[1] = <<"reset", "phone">> /\ p[2] = <<"void", "phone">>
  BY AfterChangeFacts, EmptySeq DEF Planned, Kinds
<1>3. /\ Len(S) = 1 + Len(e) + Len(p) /\ S[1] = a[1]
      /\ Len(e) > 0 => S[2] = e[1] /\ S[3] = e[2]
      /\ Len(e) = 4 => S[4] = e[3] /\ S[5] = e[4]
      /\ Len(p) > 0 => S[Len(S) - 1] = p[1] /\ S[Len(S)] = p[2]
      /\ \A i \in 1 .. Len(S) :
            \/ i = 1
            \/ Len(e) > 0 /\ i \in {2, 3}
            \/ Len(e) = 4 /\ i \in {4, 5}
            \/ Len(p) > 0 /\ i \in {Len(S) - 1, Len(S)}
  BY <1>1, <1>2, ThreeParts
<1>4. Len(S) \in 1 .. 7 /\ S[1] = <<"save", "row">>
  BY <1>1, <1>2, <1>3
<1>5. ASSUME NEW k \in Kinds, address[k] # user.address[k]
      PROVE  \E i, j \in 1 .. Len(S) : S[i] = <<"reset", k>> /\ S[j] = <<"void", k>>
  <2>1. CASE k = "email"
    <3>1. Len(e) > 0 /\ 2 \in 1 .. Len(S) /\ 3 \in 1 .. Len(S)
      BY <1>1, <1>2, <1>3, <1>5, <2>1
    <3> QED BY <1>1, <1>3, <2>1, <3>1
  <2>2. CASE k = "phone"
    <3>1. Len(p) > 0 /\ Len(S) - 1 \in 1 .. Len(S) /\ Len(S) \in 1 .. Len(S)
      BY <1>1, <1>2, <1>3, <1>5, <2>2
    <3> QED BY <1>2, <1>3, <2>2, <3>1
  <2> QED BY <2>1, <2>2 DEF Kinds
<1>6. ASSUME NEW i \in 1 .. Len(S), i # 1
      PROVE  \/ \E k \in Kinds : S[i] \in {<<"reset", k>>, <<"void", k>>}
             \/ /\ S[i] = <<"create", "email">> /\ i = 5 /\ S[3] = <<"void", "email">>
                /\ address["email"] # None
  <2>1. CASE Len(e) > 0 /\ i \in {2, 3}
    BY <1>1, <1>3, <2>1 DEF Kinds
  <2>2. CASE Len(e) = 4 /\ i = 4
    BY <1>1, <1>3, <2>2 DEF Kinds
  <2>3. CASE Len(e) = 4 /\ i = 5
    BY <1>1, <1>3, <2>3
  <2>4. CASE Len(p) > 0 /\ i \in {Len(S) - 1, Len(S)}
    BY <1>2, <1>3, <2>4 DEF Kinds
  <2> QED BY <1>3, <1>6, <2>1, <2>2, <2>3, <2>4
<1> QED BY <1>4, <1>5, <1>6 DEF IsEditPlan

\* Every such plan has this shape.
LEMMA EditPlan == \A address : IsEditPlan(EditSteps(address), address)
<1> TAKE address
<1> DEFINE a == <<<<"save", "row">>>>
           e == Planned("email", address)
           p == Planned("phone", address)
<1>1. a \in Seq(Statements) /\ Len(a) = 1 /\ a[1] = <<"save", "row">>
  BY DEF Statements, OfTheRow
<1>2. e \in Seq(Statements) /\ p \in Seq(Statements)
  BY AfterChangeFacts, EmptySeq DEF Planned, Kinds
<1>3. EditSteps(address) = (a \o e) \o p
  BY DEF EditSteps
<1> HIDE DEF a, e, p
<1>4. a \o e \in Seq(Statements) /\ Joined(a \o e, a, e)
  BY <1>1, <1>2, Concatenated
<1>5. (a \o e) \o p \in Seq(Statements) /\ Joined((a \o e) \o p, a \o e, p)
  BY <1>2, <1>4, Concatenated
<1> QED BY <1>1, <1>3, <1>4, <1>5, EditPlanFacts DEF e, p

\* The other plans.
LEMMA ShortPlans ==
    /\ \A k \in Kinds : /\ Send(k) \in Seq(Statements) /\ Len(Send(k)) = 2
                        /\ Send(k)[1] = <<"void", k>> /\ Send(k)[2] = <<"create", k>>
    /\ \A t \in Tokens :
          LET S == <<<<"confirm", "email">>, <<"spend", t>>>> IN
          /\ S \in Seq(Statements) /\ Len(S) = 2
          /\ S[1] = <<"confirm", "email">> /\ S[2] = <<"spend", t>>
    /\ \A t \in Tokens :
          LET S == <<<<"forget", "attempts">>, <<"spend", t>>, <<"confirm", "phone">>>> IN
          /\ S \in Seq(Statements) /\ Len(S) = 3
          /\ S[1] = <<"forget", "attempts">> /\ S[2] = <<"spend", t>> /\ S[3] = <<"confirm", "phone">>
    /\ LET S == <<<<"read", "attempts">>>> IN
       S \in Seq(Statements) /\ Len(S) = 1 /\ S[1] = <<"read", "attempts">>
<1>1. ASSUME NEW k \in Kinds
      PROVE  /\ Send(k) \in Seq(Statements) /\ Len(Send(k)) = 2
             /\ Send(k)[1] = <<"void", k>> /\ Send(k)[2] = <<"create", k>>
  BY DEF Statements, OfAnAddress, Send
<1>2. ASSUME NEW t \in Tokens
      PROVE  LET S == <<<<"confirm", "email">>, <<"spend", t>>>> IN
             /\ S \in Seq(Statements) /\ Len(S) = 2
             /\ S[1] = <<"confirm", "email">> /\ S[2] = <<"spend", t>>
  BY DEF Statements, OfAnAddress, Kinds
<1>3. ASSUME NEW t \in Tokens
      PROVE  LET S == <<<<"forget", "attempts">>, <<"spend", t>>, <<"confirm", "phone">>>> IN
             /\ S \in Seq(Statements) /\ Len(S) = 3
             /\ S[1] = <<"forget", "attempts">> /\ S[2] = <<"spend", t>> /\ S[3] = <<"confirm", "phone">>
  BY DEF Statements, OfAnAddress, OfTheRow, Kinds
<1>4. LET S == <<<<"read", "attempts">>>> IN
      S \in Seq(Statements) /\ Len(S) = 1 /\ S[1] = <<"read", "attempts">>
  BY DEF Statements, OfTheRow
<1> QED BY <1>1, <1>2, <1>3, <1>4

-----------------------------------------------------------------------------
(* Types.                                                                  *)

\* A request that begins has done nothing yet; the others go on.
LEMMA BeginsFacts ==
    ASSUME Shape, NEW w \in Workers, NEW copy \in UserRow, NEW S \in Seq(Statements), Begins(w, copy, S)
    PROVE  /\ request' \in [Workers -> [user : UserRow, todo : Seq(Statements)]]
           /\ Todo(w)' = S /\ request'[w].user = copy
           /\ Todo(w) = <<>> /\ \A s : ~Has(w, s)
           /\ \A v \in Workers \ {w} : request'[v] = request[v]
<1>1. request' = [request EXCEPT ![w] = [user |-> copy, todo |-> S]] /\ request[w] = NoRequest
  BY DEF Begins, Idle
<1>2. Todo(w) = <<>>
  BY <1>1, NoRequestShape DEF Todo
<1>3. Len(Todo(w)) = 0
  BY <1>2, EmptySeq
<1>4. [user |-> copy, todo |-> S] \in [user : UserRow, todo : Seq(Statements)]
  OBVIOUS
<1>5. \A s : ~Has(w, s)
  BY <1>3 DEF Has, Steps
<1> QED BY <1>1, <1>2, <1>4, <1>5 DEF Shape, Todo

\* What else a step may do to the requests: one goes on, ...
LEMMA ContinueFacts ==
    ASSUME Shape, NEW w \in Workers, Continue(w), ~ReadAttempts(w)
    PROVE  Todo(w) # <<>> /\ Done(w)
  BY DEF Continue, SaveRow, SetFlag, VoidUnused, CreateToken, SpendToken, WriteAttempts,
         ForgetAttempts, Statement, Todo

\* ... one has read the count, ...
LEMMA ReadFacts ==
    ASSUME Shape, NEW w \in Workers, ReadAttempts(w)
    PROVE  /\ request' \in [Workers -> [user : UserRow, todo : Seq(Statements)]]
           /\ \A v \in Workers \ {w} : request'[v] = request[v]
           /\ request'[w].user = request[w].user /\ Steps(w)' = Steps(w)
           /\ Len(Todo(w)') = Len(Todo(w))
           /\ Todo(w)[1] = <<"read", "attempts">> /\ Todo(w)'[1] = <<"write", attempts>>
           /\ \A i \in Steps(w) \ {1} : Todo(w)'[i] = Todo(w)[i]
<1> PICK T \in Seq(Statements) : T = Todo(w)
  BY DEF Shape, Todo
<1> PICK q \in [user : UserRow, todo : Seq(Statements)] : q = request[w]
  BY DEF Shape
<1> PICK n : n = attempts
  OBVIOUS
<1> DEFINE S == [T EXCEPT ![1] = <<"write", n>>]
           new == [q EXCEPT !.todo = S]
<1>1. 1 \in 1 .. Len(T) /\ T[1] \in Statements /\ T[1][1] = "read" /\ Len(T) \in Nat
  BY HeadFacts DEF ReadAttempts, Steps
<1>2. T[1] = <<"read", "attempts">>
  BY <1>1 DEF Statements, OfAnAddress, OfTheRow
<1>3. <<"write", n>> \in Statements
  BY DEF Statements, Shape
<1>4. /\ S \in Seq(Statements) /\ Len(S) = Len(T) /\ S[1] = <<"write", n>>
      /\ \A i \in 1 .. Len(T) : i # 1 => S[i] = T[i]
  BY <1>1, <1>3
<1>5. request' = [request EXCEPT ![w].todo[1] = <<"write", n>>]
  BY DEF ReadAttempts
<1>6. q.todo = T
  BY DEF Todo
<1>7. request' = [request EXCEPT ![w] = new]
  BY <1>5, <1>6 DEF Shape
<1> HIDE DEF S
<1>8. new \in [user : UserRow, todo : Seq(Statements)] /\ new.todo = S /\ new.user = q.user
  BY <1>4
<1> HIDE DEF new
<1>9. /\ request' \in [Workers -> [user : UserRow, todo : Seq(Statements)]]
      /\ request'[w] = new /\ \A v \in Workers \ {w} : request'[v] = request[v]
  BY <1>7, <1>8 DEF Shape
<1>10. Todo(w)' = S /\ request'[w].user = request[w].user
  BY <1>8, <1>9 DEF Todo
<1>11. Steps(w) = 1 .. Len(T) /\ Steps(w)' = 1 .. Len(T)
  BY <1>4, <1>10 DEF Steps
<1> QED BY <1>2, <1>4, <1>9, <1>10, <1>11

\* A request that has read the count has what it had, and the statement that writes it.
LEMMA ReadHas ==
    ASSUME Shape, NEW w \in Workers, ReadAttempts(w), NEW v \in Workers, NEW what, NEW a,
           Has(v, <<what, a>>)', what # "write"
    PROVE  Has(v, <<what, a>>) /\ request'[v].user = request[v].user
<1>1. CASE v = w
  BY <1>1, ReadFacts DEF Has
<1>2. CASE v # w
  BY <1>2, ReadFacts DEF Has, Steps, Todo
<1> QED BY <1>1, <1>2

\* ... or one dies: it has no statement left.
LEMMA CrashFacts ==
    ASSUME Shape, NEW w \in Workers, Crash(w)
    PROVE  /\ request' \in [Workers -> [user : UserRow, todo : Seq(Statements)]]
           /\ \A v \in Workers \ {w} : request'[v] = request[v]
           /\ Todo(w)' = <<>> /\ Len(Todo(w)') = 0 /\ \A s : ~Has(w, s)'
<1>1. request' = [request EXCEPT ![w] = NoRequest]
  BY DEF Crash
<1>2. Todo(w)' = <<>>
  BY <1>1, NoRequestShape DEF Shape, Todo
<1>3. Len(Todo(w)') = 0
  BY <1>2, EmptySeq
<1>4. \A s : ~Has(w, s)'
  BY <1>3 DEF Has, Steps
<1> QED BY <1>1, <1>2, <1>3, <1>4, NoRequestShape DEF Shape

\* A statement's argument is of the kind it needs.
LEMMA ArgumentTypes ==
    ASSUME Shape, NEW w \in Workers, NEW what, Statement(w, what)
    PROVE  /\ Has(w, <<what, Argument(w)>>)
           /\ what \in {"void", "create", "reset", "confirm"} => Argument(w) \in Kinds
           /\ what = "spend" => Argument(w) \in Tokens
           /\ what = "write" => Argument(w) \in Nat
<1>1. 1 \in Steps(w) /\ Todo(w)[1] = <<what, Argument(w)>> /\ Todo(w)[1] \in Statements
  BY HeadFacts
<1>2. <<what, Argument(w)>> \in Statements
  BY <1>1
<1>3. Has(w, <<what, Argument(w)>>)
  BY <1>1 DEF Has
<1> QED BY <1>2, <1>3 DEF Statements, OfAnAddress, OfTheRow

\* The rows keep their types when a statement is executed.
LEMMA ContinueRows ==
    ASSUME Shape, SentToAddresses, NEW w \in Workers, Continue(w)
    PROVE  /\ user' \in UserRow /\ attempts' \in Nat /\ proven' = proven
           /\ tokens' \in [Tokens -> Token]
           /\ \A t \in Tokens : tokens'[t].kind # "none" => tokens'[t].address \in Addresses
<1>1. CASE SaveRow(w)
  BY <1>1 DEF SaveRow, Shape, SentToAddresses
<1>2. CASE SetFlag(w, "reset", FALSE)
  <2>1. Argument(w) \in Kinds
    BY <1>2, ArgumentTypes DEF SetFlag
  <2> QED BY <1>2, <2>1 DEF SetFlag, Shape, SentToAddresses, UserRow
<1>3. CASE SetFlag(w, "confirm", TRUE)
  <2>1. Argument(w) \in Kinds
    BY <1>3, ArgumentTypes DEF SetFlag
  <2> QED BY <1>3, <2>1 DEF SetFlag, Shape, SentToAddresses, UserRow
<1>4. CASE VoidUnused(w)
  <2>1. tokens' = Voided(Argument(w)) /\ UNCHANGED <<user, attempts, proven>>
    BY <1>4 DEF VoidUnused
  <2>2. /\ tokens' \in [Tokens -> Token]
        /\ \A t \in Tokens : tokens'[t].kind = tokens[t].kind /\ tokens'[t].address = tokens[t].address
    BY <2>1 DEF Voided, Shape, Token
  <2> QED BY <2>1, <2>2 DEF Shape, SentToAddresses
<1>5. CASE CreateToken(w)
  <2> PICK k : k = Argument(w)
    OBVIOUS
  <2> PICK a : a = request[w].user.address[k]
    OBVIOUS
  <2>1. k \in Kinds /\ a \in Addresses
    BY <1>5, ArgumentTypes DEF CreateToken, SentToAddresses
  <2>2. PICK t \in Tokens : tokens' = [tokens EXCEPT ![t] = [NoToken EXCEPT !.kind = k, !.address = a]]
    BY <1>5 DEF CreateToken
  <2> DEFINE new == [NoToken EXCEPT !.kind = k, !.address = a]
  <2>3. new \in Token /\ new.address \in Addresses
    BY <2>1 DEF NoToken, Token
  <2> HIDE DEF new
  <2>4. tokens' = [tokens EXCEPT ![t] = new]
    BY <2>2 DEF new
  <2>5. UNCHANGED <<user, attempts, proven>>
    BY <1>5 DEF CreateToken
  <2> QED BY <2>3, <2>4, <2>5 DEF Shape, SentToAddresses
<1>6. CASE SpendToken(w)
  <2>1. UNCHANGED <<user, attempts, proven>> /\ Argument(w) \in Tokens
    BY <1>6, ArgumentTypes DEF SpendToken
  <2>2. /\ tokens' \in [Tokens -> Token]
        /\ \A t \in Tokens : tokens'[t].kind = tokens[t].kind /\ tokens'[t].address = tokens[t].address
    BY <1>6, <2>1 DEF SpendToken, Shape, Token
  <2> QED BY <2>1, <2>2 DEF Shape, SentToAddresses
<1>7. CASE WriteAttempts(w)
  <2>1. Argument(w) \in Nat
    BY <1>7, ArgumentTypes DEF WriteAttempts
  <2> QED BY <1>7, <2>1 DEF WriteAttempts, Shape, SentToAddresses
<1>8. CASE ReadAttempts(w) \/ ForgetAttempts(w)
  BY <1>8 DEF ReadAttempts, ForgetAttempts, Shape, SentToAddresses
<1> QED BY <1>1, <1>2, <1>3, <1>4, <1>5, <1>6, <1>7, <1>8 DEF Continue

\* The length of the longest plan.
LEMMA AtMostSeven == \A n \in 1 .. 7 : n <= 7
  OBVIOUS

\* A request that begins keeps the types when its plan does.
LEMMA BeginTypes ==
    ASSUME TypeInv, NEW w \in Workers, NEW copy \in UserRow, NEW S \in Seq(Statements),
           Begins(w, copy, S), Len(S) \in 1 .. 7, UNCHANGED <<user, tokens, attempts>>,
           proven' \subseteq Addresses,
           \A k \in Kinds : \A i \in 1 .. Len(S) :
              S[i] = <<"create", k>> => copy.address[k] \in Addresses
    PROVE  TypeInv'
<1>1. /\ request' \in [Workers -> [user : UserRow, todo : Seq(Statements)]]
      /\ Todo(w)' = S /\ request'[w].user = copy
      /\ \A v \in Workers \ {w} : request'[v] = request[v]
  BY BeginsFacts DEF TypeInv
<1>2. Shape'
  BY <1>1 DEF TypeInv, Shape
<1>3. ASSUME NEW v \in Workers, NEW k \in Kinds, Has(v, <<"create", k>>)'
      PROVE  request'[v].user.address[k] \in Addresses
  <2>1. CASE v = w
    BY <1>1, <1>3, <2>1 DEF Has, Steps
  <2>2. CASE v # w
    <3>1. Has(v, <<"create", k>>)
      BY <1>1, <1>3, <2>2 DEF Has, Steps, Todo
    <3> QED BY <1>1, <2>2, <3>1 DEF TypeInv, SentToAddresses
  <2> QED BY <2>1, <2>2
<1>4. ASSUME NEW v \in Workers
      PROVE  Len(Todo(v)') <= 7
  <2>1. CASE v = w
    <3>1. Todo(v)' = S
      BY <1>1, <2>1
    <3> QED BY <3>1, AtMostSeven, Zenon
  <2>2. CASE v # w
    <3>1. Todo(v)' = Todo(v)
      BY <1>1, <2>2 DEF Todo
    <3> QED BY <3>1 DEF TypeInv
  <2> QED BY <2>1, <2>2
<1>5. SentToAddresses'
  BY <1>3 DEF TypeInv, SentToAddresses
<1> QED BY <1>2, <1>4, <1>5 DEF TypeInv

LEMMA ShortBeginTypes ==
    ASSUME TypeInv, NEW w \in Workers, NEW S \in Seq(Statements),
           Begins(w, NothingOfTheRow, S), Len(S) \in 1 .. 7, UNCHANGED <<user, tokens, attempts>>,
           proven' \subseteq Addresses,
           \A k \in Kinds, i \in 1 .. Len(S) : S[i] # <<"create", k>>
    PROVE  TypeInv'
<1>1. NothingOfTheRow \in UserRow
  BY NoRequestShape DEF NothingOfTheRow
<1> QED BY <1>1, BeginTypes

\* Every step keeps the types.
LEMMA NextTypes == TypeInv /\ [Next]_vars => TypeInv'
<1> SUFFICES ASSUME TypeInv, [Next]_vars PROVE TypeInv'
  OBVIOUS
<1>1. Shape /\ SentToAddresses /\ \A w \in Workers : Len(Todo(w)) <= 7
  BY DEF TypeInv
<1>2. ASSUME NEW w \in Workers, Begin(w)
      PROVE  TypeInv'
  <2>1. ASSUME NEW k \in Kinds, RequestToken(w, k)
        PROVE  TypeInv'
    <3>1. user.address[k] \in Addresses /\ user \in UserRow
      BY <1>1, <2>1 DEF RequestToken, Shape, UserRow
    <3>2. \A l \in Kinds : \A i \in 1 .. Len(Send(k)) :
             Send(k)[i] = <<"create", l>> => user.address[l] \in Addresses
      <4> SUFFICES ASSUME NEW l \in Kinds, NEW i \in {1, 2}, Send(k)[i] = <<"create", l>>
                   PROVE  user.address[l] \in Addresses
        BY ShortPlans
      <4> QED BY <3>1, ShortPlans
    <3>3. Begins(w, user, Send(k)) /\ UNCHANGED <<user, tokens, attempts, proven>>
      BY <2>1 DEF RequestToken
    <3>4. Send(k) \in Seq(Statements) /\ Len(Send(k)) \in 1 .. 7
      BY ShortPlans
    <3> QED BY <1>1, <3>1, <3>2, <3>3, <3>4, BeginTypes DEF Shape
  <2>2. ASSUME NEW address \in [Kinds -> Addresses \cup {None}], EditProfile(w, address)
        PROVE  TypeInv'
    <3> PICK S : S = EditSteps(address)
      OBVIOUS
    <3>1. IsEditPlan(S, address)
      BY EditPlan
    <3> PICK copy : copy = [user EXCEPT !.address = address]
      OBVIOUS
    <3>2. copy \in UserRow /\ copy.address = address
      BY <1>1 DEF Shape, UserRow
    <3>3. Begins(w, copy, S) /\ UNCHANGED <<user, tokens, attempts, proven>>
      BY <2>2 DEF EditProfile, EditSteps, Planned
    <3>4. ASSUME NEW k \in Kinds, NEW i \in 1 .. Len(S), S[i] = <<"create", k>>
          PROVE  copy.address[k] \in Addresses
      <4>1. i # 1
        BY <3>1, <3>4 DEF IsEditPlan
      <4>2. k = "email" /\ address["email"] # None
        BY <3>1, <3>4, <4>1 DEF IsEditPlan
      <4> QED BY <3>2, <4>2 DEF Kinds
    <3>5. S \in Seq(Statements) /\ Len(S) \in 1 .. 7
      BY <3>1 DEF IsEditPlan
    <3> QED BY <1>1, <3>2, <3>3, <3>4, <3>5, BeginTypes DEF Shape
  <2>3. ASSUME NEW t \in Tokens, ShowLink(w, t)
        PROVE  TypeInv'
    <3> PICK S \in Seq(Statements) : /\ S = <<<<"confirm", "email">>, <<"spend", t>>>> /\ Len(S) = 2
                                     /\ S[1] = <<"confirm", "email">> /\ S[2] = <<"spend", t>>
      BY ShortPlans
    <3>1. Begins(w, NothingOfTheRow, S) /\ UNCHANGED <<user, tokens, attempts>>
      BY <2>3 DEF ShowLink
    <3>2. proven' \subseteq Addresses
      BY <1>1, <2>3 DEF ShowLink, Shape, SentToAddresses
    <3>3. \A k \in Kinds, i \in 1 .. Len(S) : S[i] # <<"create", k>>
      <4> SUFFICES ASSUME NEW i \in {1, 2}, NEW k \in Kinds, S[i] = <<"create", k>> PROVE FALSE
        OBVIOUS
      <4> QED OBVIOUS
    <3>4. Len(S) \in 1 .. 7
      OBVIOUS
    <3> QED BY <3>1, <3>2, <3>3, <3>4, ShortBeginTypes, Zenon
  <2>4. ASSUME NEW t \in Tokens, EnterCode(w, t)
        PROVE  TypeInv'
    <3> PICK S \in Seq(Statements) :
               /\ S = <<<<"forget", "attempts">>, <<"spend", t>>, <<"confirm", "phone">>>> /\ Len(S) = 3
               /\ S[1] = <<"forget", "attempts">> /\ S[2] = <<"spend", t>> /\ S[3] = <<"confirm", "phone">>
      BY ShortPlans
    <3>1. Begins(w, NothingOfTheRow, S) /\ UNCHANGED <<user, tokens, attempts>>
      BY <2>4 DEF EnterCode
    <3>2. proven' \subseteq Addresses
      BY <1>1, <2>4 DEF EnterCode, Shape, SentToAddresses
    <3>3. \A k \in Kinds, i \in 1 .. Len(S) : S[i] # <<"create", k>>
      <4> SUFFICES ASSUME NEW i \in {1, 2, 3}, NEW k \in Kinds, S[i] = <<"create", k>> PROVE FALSE
        OBVIOUS
      <4> QED OBVIOUS
    <3>4. Len(S) \in 1 .. 7
      OBVIOUS
    <3> QED BY <3>1, <3>2, <3>3, <3>4, ShortBeginTypes, Zenon
  <2>5. CASE EnterWrongCode(w)
    <3> PICK S \in Seq(Statements) : /\ S = <<<<"read", "attempts">>>> /\ Len(S) = 1
                                     /\ S[1] = <<"read", "attempts">>
      BY ShortPlans
    <3>1. Begins(w, NothingOfTheRow, S) /\ UNCHANGED <<user, tokens, attempts, proven>>
      BY <2>5 DEF EnterWrongCode
    <3>2. \A k \in Kinds, i \in 1 .. Len(S) : S[i] # <<"create", k>>
      <4> SUFFICES ASSUME NEW k \in Kinds, S[1] = <<"create", k>> PROVE FALSE
        OBVIOUS
      <4> QED OBVIOUS
    <3>3. proven' \subseteq Addresses
      BY <1>1, <3>1 DEF Shape
    <3> QED BY <3>1, <3>2, <3>3, ShortBeginTypes
  <2>6. ASSUME NEW amount \in {-1, 1}, ChangeBalance(w, amount)
        PROVE  TypeInv'
    <3>1. user' \in UserRow /\ UNCHANGED <<tokens, attempts, request, proven>>
      BY <1>1, <2>6 DEF ChangeBalance, CanChange, Shape, UserRow
    <3> QED BY <1>1, <3>1 DEF TypeInv, Shape, SentToAddresses, Has, Steps, Todo
  <2> QED BY <1>2, <2>1, <2>2, <2>3, <2>4, <2>5, <2>6 DEF Begin
<1>3. ASSUME NEW w \in Workers, Continue(w), ~ReadAttempts(w)
      PROVE  TypeInv'
  <2>1. Todo(w) # <<>> /\ Done(w)
    BY <1>1, <1>3, ContinueFacts
  <2>2. /\ user' \in UserRow /\ attempts' \in Nat /\ proven' = proven
        /\ tokens' \in [Tokens -> Token]
        /\ \A t \in Tokens : tokens'[t].kind # "none" => tokens'[t].address \in Addresses
    BY <1>1, <1>3, ContinueRows
  <2>3. Shape'
    BY <1>1, <2>1, <2>2, DoneFacts DEF Shape
  <2>4. \A v \in Workers, k \in Kinds :
           Has(v, <<"create", k>>)' => request'[v].user.address[k] \in Addresses
    BY <1>1, <2>1, DoneHas DEF SentToAddresses
  <2>5. ASSUME NEW v \in Workers
        PROVE  Len(Todo(v)') <= 7
    <3>1. CASE v = w
      <4>1. Len(Todo(w)) \in Nat /\ Len(Todo(w)') = Len(Todo(w)) - 1
        BY <1>1, <2>1, DoneFacts
      <4> QED BY <1>1, <3>1, <4>1
    <3>2. CASE v # w
      BY <1>1, <2>1, <3>2, DoneFacts DEF Todo
    <3> QED BY <3>1, <3>2
  <2> QED BY <2>2, <2>3, <2>4, <2>5 DEF TypeInv, SentToAddresses
<1>4. ASSUME NEW w \in Workers, Crash(w)
      PROVE  TypeInv'
  <2>1. UNCHANGED <<user, tokens, attempts, proven>>
    BY <1>4 DEF Crash
  <2>2. ASSUME NEW v \in Workers, NEW k \in Kinds, Has(v, <<"create", k>>)'
        PROVE  request'[v].user.address[k] \in Addresses
    <3>1. v # w
      BY <1>1, <1>4, <2>2, CrashFacts
    <3>2. request'[v] = request[v] /\ Has(v, <<"create", k>>)
      BY <1>1, <1>4, <2>2, <3>1, CrashFacts DEF Has, Steps, Todo
    <3> QED BY <1>1, <3>2 DEF SentToAddresses
  <2>3. \A v \in Workers : Len(Todo(v)') <= 7
    BY <1>1, <1>4, CrashFacts DEF Todo
  <2> QED BY <1>1, <1>4, <2>1, <2>2, <2>3, CrashFacts DEF TypeInv, Shape, SentToAddresses
<1>5. ASSUME NEW t \in Tokens, TokenExpires(t)
      PROVE  TypeInv'
  <2>1. UNCHANGED <<user, attempts, request, proven>>
    BY <1>5 DEF TokenExpires
  <2>2. /\ tokens' \in [Tokens -> Token]
        /\ \A s \in Tokens : tokens'[s].kind = tokens[s].kind /\ tokens'[s].address = tokens[s].address
    BY <1>1, <1>5 DEF TokenExpires, Shape, Token
  <2> QED BY <1>1, <2>1, <2>2 DEF TypeInv, Shape, SentToAddresses, Has, Steps, Todo
<1>6. CASE LockoutEnds
  <2>1. attempts' = 0 /\ UNCHANGED <<user, tokens, request, proven>>
    BY <1>6 DEF LockoutEnds
  <2> QED BY <1>1, <2>1 DEF TypeInv, Shape, SentToAddresses, Has, Steps, Todo
<1>7. CASE UNCHANGED vars
  BY <1>1, <1>7 DEF vars, TypeInv, Shape, SentToAddresses, Has, Steps, Todo
<1>8. ASSUME NEW w \in Workers, ReadAttempts(w)
      PROVE  TypeInv'
  <2>1. UNCHANGED <<user, tokens, attempts, proven>>
    BY <1>8 DEF ReadAttempts
  <2>2. Shape'
    BY <1>1, <1>8, <2>1, ReadFacts DEF Shape
  <2>3. \A v \in Workers, k \in Kinds :
           Has(v, <<"create", k>>)' => request'[v].user.address[k] \in Addresses
    BY <1>1, <1>8, ReadHas DEF SentToAddresses
  <2>4. ASSUME NEW v \in Workers
        PROVE  Len(Todo(v)') <= 7
    <3>1. CASE v = w
      BY <1>1, <1>8, <3>1, ReadFacts
    <3>2. CASE v # w
      BY <1>1, <1>8, <3>2, ReadFacts DEF Todo
    <3> QED BY <3>1, <3>2
  <2> QED BY <1>1, <2>1, <2>2, <2>3, <2>4 DEF TypeInv, SentToAddresses
<1> QED BY <1>2, <1>3, <1>4, <1>5, <1>6, <1>7, <1>8 DEF Next

\* They hold in the beginning.
LEMMA InitTypes == Init => TypeInv
<1> SUFFICES ASSUME Init PROVE TypeInv
  OBVIOUS
<1>1. user \in UserRow
  BY NoRequestShape DEF Init, UserRow
<1>2. NoToken \in Token /\ NoToken.kind = "none"
  BY DEF NoToken, Token
<1>3. \A w \in Workers : Todo(w) = <<>>
  BY NoRequestShape DEF Init, Todo
<1>4. \A w \in Workers : Len(Todo(w)) = 0
  BY <1>3, EmptySeq
<1>5. \A w \in Workers : \A s : ~Has(w, s)
  BY <1>4 DEF Has, Steps
<1> QED BY <1>1, <1>2, <1>4, <1>5, NoRequestShape DEF Init, TypeInv, Shape, SentToAddresses

\* They hold for every instance of Account.
LEMMA Invariance == Spec => []TypeInv
  BY InitTypes, NextTypes, PTL DEF Spec

\* The rows, links and requests of an account always have the types of their columns:
\* in particular the balance stays in its range although a page writes back the one it read.
THEOREM TypeCorrect == Spec => []AccountTypeOK
<1>1. TypeInv => AccountTypeOK
  BY DEF TypeInv, Shape, AccountTypeOK, UserRow, Token, Todo
<1> QED BY <1>1, Invariance, PTL

-----------------------------------------------------------------------------
(* What a step does to the statements that are left.                       *)

\* Requests that are not touched have what they had.
LEMMA SameHas ==
    ASSUME NEW v \in Workers, request'[v] = request[v], NEW s
    PROVE  Has(v, s)' <=> Has(v, s)
  BY DEF Has, Steps, Todo

\* Only the statement that is executed is gone.
LEMMA DoneKeeps ==
    ASSUME Shape, NEW w \in Workers, Todo(w) # <<>>, Done(w), NEW v \in Workers, NEW s, Has(v, s),
           v = w => s # Todo(w)[1]
    PROVE  Has(v, s)'
<1>1. CASE v = w
  <2> PICK i \in Steps(w) : Todo(w)[i] = s
    BY <1>1 DEF Has
  <2>1. /\ Len(Todo(w)) \in Nat /\ Len(Todo(w)') = Len(Todo(w)) - 1
        /\ \A j \in Steps(w)' : Todo(w)'[j] = Todo(w)[j + 1]
    BY DoneFacts
  <2>2. i # 1
    BY <1>1
  <2>3. i - 1 \in Steps(w)' /\ (i - 1) + 1 = i
    BY <2>1, <2>2 DEF Steps
  <2>4. Todo(w)'[i - 1] = s
    BY <2>1, <2>3
  <2> QED BY <1>1, <2>3, <2>4 DEF Has
<1>2. CASE v # w
  BY <1>2, DoneFacts, SameHas
<1> QED BY <1>1, <1>2

\* The statement that is executed is the first.
LEMMA Executed ==
    ASSUME Shape, NEW w \in Workers, NEW what, Statement(w, what)
    PROVE  1 \in Steps(w) /\ Todo(w)[1] = <<what, Argument(w)>> /\ Has(w, <<what, Argument(w)>>)
  BY HeadFacts, ArgumentTypes

-----------------------------------------------------------------------------
(* The latest link.                                                        *)

Live(t, k) == tokens[t].kind = k /\ Usable(t)

\* by says which worker sent a link or code.
NoneOf(w, k, by) == \A t \in Tokens : Live(t, k) => by[t] # w

\* In the plan S of worker w, a link is sent only after the worker's own are void.
Replaces(w, S, by) ==
    \A k \in Kinds : \A i \in 1 .. Len(S) : S[i] = <<"create", k>> =>
        /\ w \in Senders
        /\ NoneOf(w, k, by) \/ \E j \in 1 .. i - 1 : S[j] = <<"void", k>>
        /\ \A j \in 1 .. Len(S) : S[j] = <<"create", k>> => i = j

\* A worker only creates a link when none of its own is valid, or none will be by then.
SentBy(by) ==
    /\ by \in [Tokens -> Workers \cup {None}]
    /\ \A k \in Kinds : \A t \in Tokens : Live(t, k) => by[t] \in Senders
    /\ \A k \in Kinds : \A t, u \in Tokens : Live(t, k) /\ Live(u, k) /\ by[t] = by[u] => t = u
    /\ \A w \in Workers : Replaces(w, Todo(w), by)

LatestInv == \E by : SentBy(by)

\* Plans that send nothing.
LEMMA SendsNothing ==
    ASSUME NEW w, NEW S, NEW by, \A k \in Kinds : \A i \in 1 .. Len(S) : S[i] # <<"create", k>>
    PROVE  Replaces(w, S, by)
  BY DEF Replaces

\* A request begins with a plan that voids a link before it sends one.
LEMMA PlansReplace ==
    ASSUME Shape, NEW w \in Workers, Begin(w), NEW by
    PROVE  \/ request' = request
           \/ \E copy \in UserRow, S \in Seq(Statements) : Begins(w, copy, S) /\ Replaces(w, S, by)
<1>1. ASSUME NEW k \in Kinds, RequestToken(w, k)
      PROVE  \E copy \in UserRow, S \in Seq(Statements) : Begins(w, copy, S) /\ Replaces(w, S, by)
  <2> PICK S \in Seq(Statements) : /\ S = Send(k) /\ Len(S) = 2
                                   /\ S[1] = <<"void", k>> /\ S[2] = <<"create", k>>
    BY ShortPlans
  <2>1. Begins(w, user, S) /\ w \in Senders /\ user \in UserRow
    BY <1>1 DEF RequestToken, Senders, Shape
  <2>2. ASSUME NEW l \in Kinds, NEW i \in {1, 2}, S[i] = <<"create", l>>
        PROVE  i = 2 /\ l = k
    BY <2>2
  <2>3. \A l \in Kinds : \A i \in 1 .. Len(S) : S[i] = <<"create", l>> =>
           /\ \E j \in 1 .. i - 1 : S[j] = <<"void", l>>
           /\ \A j \in 1 .. Len(S) : S[j] = <<"create", l>> => i = j
    BY <2>2
  <2>4. Replaces(w, S, by)
    BY <2>1, <2>3 DEF Replaces
  <2> QED BY <2>1, <2>4
<1>2. ASSUME NEW address \in [Kinds -> Addresses \cup {None}], EditProfile(w, address)
      PROVE  \E copy \in UserRow, S \in Seq(Statements) : Begins(w, copy, S) /\ Replaces(w, S, by)
  <2> PICK S : S = EditSteps(address)
    OBVIOUS
  <2>1. IsEditPlan(S, address)
    BY EditPlan
  <2> PICK copy : copy = [user EXCEPT !.address = address]
    OBVIOUS
  <2>2. copy \in UserRow
    BY DEF Shape, UserRow
  <2>3. Begins(w, copy, S) /\ w \in Senders
    BY <1>2 DEF EditProfile, EditSteps, Planned, Senders
  <2>4. ASSUME NEW k \in Kinds, NEW i \in 1 .. Len(S), S[i] = <<"create", k>>
        PROVE  i = 5 /\ S[3] = <<"void", k>>
    <3>1. i # 1
      BY <2>1, <2>4 DEF IsEditPlan
    <3> QED BY <2>1, <2>4, <3>1 DEF IsEditPlan
  <2>5. Replaces(w, S, by)
    BY <2>3, <2>4 DEF Replaces
  <2> QED BY <2>1, <2>2, <2>3, <2>5 DEF IsEditPlan
<1>3. ASSUME NEW t \in Tokens, ShowLink(w, t)
      PROVE  \E copy \in UserRow, S \in Seq(Statements) : Begins(w, copy, S) /\ Replaces(w, S, by)
  <2> PICK S \in Seq(Statements) : /\ S = <<<<"confirm", "email">>, <<"spend", t>>>> /\ Len(S) = 2
                                   /\ S[1] = <<"confirm", "email">> /\ S[2] = <<"spend", t>>
    BY ShortPlans
  <2>1. Begins(w, NothingOfTheRow, S) /\ NothingOfTheRow \in UserRow
    BY <1>3, NoRequestShape DEF ShowLink, NothingOfTheRow
  <2>2. \A k \in Kinds : \A i \in 1 .. Len(S) : S[i] # <<"create", k>>
    <3> SUFFICES ASSUME NEW i \in {1, 2}, NEW k \in Kinds, S[i] = <<"create", k>> PROVE FALSE
      OBVIOUS
    <3> QED OBVIOUS
  <2> QED BY <2>1, <2>2, SendsNothing
<1>4. ASSUME NEW t \in Tokens, EnterCode(w, t)
      PROVE  \E copy \in UserRow, S \in Seq(Statements) : Begins(w, copy, S) /\ Replaces(w, S, by)
  <2> PICK S \in Seq(Statements) :
             /\ S = <<<<"forget", "attempts">>, <<"spend", t>>, <<"confirm", "phone">>>> /\ Len(S) = 3
             /\ S[1] = <<"forget", "attempts">> /\ S[2] = <<"spend", t>> /\ S[3] = <<"confirm", "phone">>
    BY ShortPlans
  <2>1. Begins(w, NothingOfTheRow, S) /\ NothingOfTheRow \in UserRow
    BY <1>4, NoRequestShape DEF EnterCode, NothingOfTheRow
  <2>2. \A k \in Kinds : \A i \in 1 .. Len(S) : S[i] # <<"create", k>>
    <3> SUFFICES ASSUME NEW i \in {1, 2, 3}, NEW k \in Kinds, S[i] = <<"create", k>> PROVE FALSE
      OBVIOUS
    <3> QED OBVIOUS
  <2> QED BY <2>1, <2>2, SendsNothing
<1>5. CASE EnterWrongCode(w)
  <2> PICK S \in Seq(Statements) : /\ S = <<<<"read", "attempts">>>> /\ Len(S) = 1
                                   /\ S[1] = <<"read", "attempts">>
    BY ShortPlans
  <2>1. Begins(w, NothingOfTheRow, S) /\ NothingOfTheRow \in UserRow
    BY <1>5, NoRequestShape DEF EnterWrongCode, NothingOfTheRow
  <2>2. \A k \in Kinds : \A i \in 1 .. Len(S) : S[i] # <<"create", k>>
    <3> SUFFICES ASSUME NEW k \in Kinds, S[1] = <<"create", k>> PROVE FALSE
      OBVIOUS
    <3> QED OBVIOUS
  <2> QED BY <2>1, <2>2, SendsNothing
<1>6. ASSUME NEW amount \in {-1, 1}, ChangeBalance(w, amount)
      PROVE  request' = request
  BY <1>6 DEF ChangeBalance
<1> QED BY <1>1, <1>2, <1>3, <1>4, <1>5, <1>6 DEF Begin

\* Links that are created by nobody only become fewer.
NoNewLink == \A t \in Tokens, k \in Kinds : Live(t, k)' => Live(t, k)

\* No other statement makes a link valid.
LEMMA StatementsMakeNoLink ==
    ASSUME Shape, NEW w \in Workers, Continue(w), ~CreateToken(w)
    PROVE  /\ NoNewLink
           /\ \A k \in Kinds : Todo(w)[1] = <<"void", k>> => \A t \in Tokens : ~Live(t, k)'
<1>1. CASE UNCHANGED tokens /\ \A k \in Kinds : Todo(w)[1] # <<"void", k>>
  BY <1>1 DEF NoNewLink, Live, Usable
<1>2. CASE VoidUnused(w)
  <2> PICK k : k = Argument(w)
    OBVIOUS
  <2>1. k \in Kinds /\ Todo(w)[1] = <<"void", k>> /\ tokens' = Voided(k)
    BY <1>2, ArgumentTypes, HeadFacts DEF VoidUnused
  <2>2. \A t \in Tokens : /\ tokens'[t].kind = tokens[t].kind
                          /\ tokens'[t].expired = tokens[t].expired
                          /\ tokens'[t].used = IF tokens[t].kind = k THEN TRUE ELSE tokens[t].used
    BY <2>1 DEF Voided, Shape, Token
  <2>3. NoNewLink
    BY <2>2 DEF NoNewLink, Live, Usable
  <2>4. \A t \in Tokens : ~Live(t, k)'
    BY <2>2 DEF Live, Usable
  <2>5. \A l \in Kinds : Todo(w)[1] = <<"void", l>> => l = k
    BY <2>1
  <2> QED BY <2>3, <2>4, <2>5
<1>3. CASE SpendToken(w)
  <2> PICK a : a = Argument(w)
    OBVIOUS
  <2>1. a \in Tokens /\ Todo(w)[1] = <<"spend", a>> /\ tokens' = [tokens EXCEPT ![a].used = TRUE]
    BY <1>3, ArgumentTypes, HeadFacts DEF SpendToken
  <2>2. \A t \in Tokens : /\ tokens'[t].kind = tokens[t].kind
                          /\ tokens'[t].expired = tokens[t].expired
                          /\ tokens'[t].used = IF t = a THEN TRUE ELSE tokens[t].used
    BY <2>1 DEF Shape, Token
  <2> QED BY <2>1, <2>2 DEF NoNewLink, Live, Usable
<1>4. ASSUME NEW what, Statement(w, what), what # "void", UNCHANGED tokens
      PROVE  UNCHANGED tokens /\ \A k \in Kinds : Todo(w)[1] # <<"void", k>>
  BY <1>4, HeadFacts
<1>5. CASE ~VoidUnused(w) /\ ~SpendToken(w)
  <2>1. PICK what : Statement(w, what) /\ what # "void" /\ UNCHANGED tokens
    BY <1>5 DEF Continue, SaveRow, SetFlag, ReadAttempts, WriteAttempts, ForgetAttempts
  <2> QED BY <1>1, <1>4, <2>1
<1> QED BY <1>2, <1>3, <1>5

\* A step that makes no link leaves each link to who sent it.
LEMMA NobodySends ==
    ASSUME NoNewLink, NEW by, SentBy(by), \A v \in Workers : Replaces(v, Todo(v), by)'
    PROVE  LatestInv'
<1>1. SentBy(by)'
  BY DEF NoNewLink, SentBy
<1> QED BY <1>1 DEF LatestInv

\* A worker that does nothing keeps its plan.
LEMMA OthersReplace ==
    ASSUME NoNewLink, NEW by, SentBy(by), NEW v \in Workers, Todo(v)' = Todo(v)
    PROVE  Replaces(v, Todo(v), by)'
<1>1. Replaces(v, Todo(v), by)
  BY DEF SentBy
<1> QED BY <1>1 DEF NoNewLink, NoneOf, Replaces

\* What is left of a plan that replaces, after its first statement.
Remains(w, by) ==
    \A k \in Kinds : \A i \in Steps(w)' : Todo(w)'[i] = <<"create", k>> =>
        /\ w \in Senders /\ Todo(w)[i + 1] = <<"create", k>> /\ i + 1 \in Steps(w) /\ i + 1 # 1
        /\ \/ NoneOf(w, k, by) \/ Todo(w)[1] = <<"void", k>>
           \/ \E j \in 1 .. i - 1 : Todo(w)'[j] = <<"void", k>>
        /\ \A j \in Steps(w)' : Todo(w)'[j] = <<"create", k>> => i = j

\* The first statement is what the rest of the plan relies on.
LEMMA LeftOver ==
    ASSUME Shape, NEW w \in Workers, Todo(w) # <<>>, Done(w), NEW by, Replaces(w, Todo(w), by)
    PROVE  Remains(w, by)
<1> SUFFICES ASSUME NEW k \in Kinds, NEW i \in Steps(w)', Todo(w)'[i] = <<"create", k>>
             PROVE  /\ w \in Senders /\ Todo(w)[i + 1] = <<"create", k>> /\ i + 1 \in Steps(w) /\ i + 1 # 1
                    /\ \/ NoneOf(w, k, by) \/ Todo(w)[1] = <<"void", k>>
                       \/ \E j \in 1 .. i - 1 : Todo(w)'[j] = <<"void", k>>
                    /\ \A j \in Steps(w)' : Todo(w)'[j] = <<"create", k>> => i = j
  BY DEF Remains
<1>1. /\ Len(Todo(w)) \in Nat /\ Len(Todo(w))' = Len(Todo(w)) - 1
      /\ \A j \in Steps(w)' : j + 1 \in Steps(w) /\ j \in Nat /\ Todo(w)'[j] = Todo(w)[j + 1]
  BY DoneFacts
<1>2. /\ i + 1 \in Steps(w) /\ i \in Nat /\ Todo(w)[i + 1] = <<"create", k>>
      /\ i + 1 # 1 /\ i \in 1 .. Len(Todo(w)) - 1
  BY <1>1 DEF Steps
<1>3. /\ w \in Senders /\ (NoneOf(w, k, by) \/ \E j \in 1 .. i : Todo(w)[j] = <<"void", k>>)
      /\ \A j \in Steps(w) : Todo(w)[j] = <<"create", k>> => i + 1 = j
  <2>1. i + 1 \in 1 .. Len(Todo(w)) /\ (i + 1) - 1 = i
    BY <1>2 DEF Steps
  <2> QED BY <1>2, <2>1 DEF Replaces, Steps
<1>4. ASSUME NEW j \in 1 .. i, Todo(w)[j] = <<"void", k>>, j # 1
      PROVE  j - 1 \in 1 .. i - 1 /\ Todo(w)'[j - 1] = <<"void", k>>
  <2>1. j - 1 \in 1 .. i - 1 /\ j - 1 \in Steps(w)' /\ (j - 1) + 1 = j
    BY <1>1, <1>2, <1>4 DEF Steps
  <2> QED BY <1>1, <1>4, <2>1
<1>5. ASSUME NEW j \in Steps(w)', Todo(w)'[j] = <<"create", k>>
      PROVE  i = j
  <2>1. j + 1 \in Steps(w) /\ j \in Nat /\ Todo(w)[j + 1] = <<"create", k>>
    BY <1>1, <1>5
  <2>2. i + 1 = j + 1
    BY <1>3, <2>1
  <2> QED BY <1>2, <2>1, <2>2
<1>6. \/ NoneOf(w, k, by) \/ Todo(w)[1] = <<"void", k>>
      \/ \E j \in 1 .. i - 1 : Todo(w)'[j] = <<"void", k>>
  BY <1>3, <1>4
<1>7. \A j \in Steps(w)' : Todo(w)'[j] = <<"create", k>> => i = j
  BY <1>5
<1>8. w \in Senders /\ Todo(w)[i + 1] = <<"create", k>> /\ i + 1 \in Steps(w) /\ i + 1 # 1
  BY <1>2, <1>3, Zenon
<1> QED BY <1>6, <1>7, <1>8, Zenon

\* A new link belongs to the worker that created it, which had none before.
LEMMA CreateLatest ==
    ASSUME Shape, NEW by, SentBy(by), NEW w \in Workers, CreateToken(w)
    PROVE  LatestInv'
<1> PICK k : k = Argument(w)
  OBVIOUS
<1>1. Todo(w) # <<>> /\ Done(w) /\ Replaces(w, Todo(w), by)
  BY DEF CreateToken, Statement, Todo, SentBy
<1>2. k \in Kinds /\ Todo(w)[1] = <<"create", k>> /\ 1 \in Steps(w)
  BY ArgumentTypes, HeadFacts DEF CreateToken
<1>3. w \in Senders /\ NoneOf(w, k, by)
  BY <1>1, <1>2 DEF Replaces, Steps
<1>4. PICK t \in Tokens : /\ ~Usable(t)
                          /\ \A u \in Tokens \ {t} : tokens'[u] = tokens[u]
                          /\ tokens'[t].kind = k
  <2>1. PICK t \in Tokens : /\ ~Usable(t)
                            /\ tokens' = [tokens EXCEPT ![t] = [NoToken EXCEPT !.kind = k,
                                             !.address = request[w].user.address[k]]]
    BY DEF CreateToken
  <2> QED BY <2>1 DEF NoToken, Shape
<1>5. \A u \in Tokens, l \in Kinds : Live(u, l)' => (u # t /\ Live(u, l)) \/ (u = t /\ l = k)
  BY <1>4 DEF Live, Usable
<1> PICK new : new = [by EXCEPT ![t] = w]
  OBVIOUS
<1>6. new \in [Tokens -> Workers \cup {None}] /\ new[t] = w /\ \A u \in Tokens \ {t} : new[u] = by[u]
  BY DEF SentBy
<1>7. \A l \in Kinds : \A u \in Tokens : Live(u, l)' => new[u] \in Senders
  BY <1>3, <1>5, <1>6 DEF SentBy
<1>8. \A l \in Kinds : \A u, v \in Tokens : Live(u, l)' /\ Live(v, l)' /\ new[u] = new[v] => u = v
  BY <1>3, <1>5, <1>6 DEF SentBy, NoneOf
<1>9. ASSUME NEW l \in Kinds, l # k, NoneOf(w, l, by)
      PROVE  NoneOf(w, l, new)'
  BY <1>5, <1>6, <1>9 DEF NoneOf
<1>10. Replaces(w, Todo(w), new)'
  <2>0. Remains(w, by)
    BY <1>1, LeftOver
  <2> SUFFICES ASSUME NEW l \in Kinds, NEW i \in Steps(w)', Todo(w)'[i] = <<"create", l>>
               PROVE  /\ w \in Senders
                      /\ NoneOf(w, l, new)' \/ \E j \in 1 .. i - 1 : Todo(w)'[j] = <<"void", l>>
                      /\ \A j \in Steps(w)' : Todo(w)'[j] = <<"create", l>> => i = j
    BY DEF Replaces, Steps
  <2>1. /\ Todo(w)[i + 1] = <<"create", l>> /\ i + 1 \in Steps(w) /\ i + 1 # 1
        /\ \/ NoneOf(w, l, by) \/ Todo(w)[1] = <<"void", l>>
           \/ \E j \in 1 .. i - 1 : Todo(w)'[j] = <<"void", l>>
        /\ \A j \in Steps(w)' : Todo(w)'[j] = <<"create", l>> => i = j
    BY <2>0 DEF Remains
  <2>2. l # k
    BY <1>1, <1>2, <2>1 DEF Replaces, Steps
  <2>3. Todo(w)[1] # <<"void", l>>
    BY <1>2
  <2> QED BY <1>3, <1>9, <2>1, <2>2, <2>3
<1>11. ASSUME NEW v \in Workers, v # w
       PROVE  Replaces(v, Todo(v), new)'
  <2>1. Todo(v)' = Todo(v) /\ Replaces(v, Todo(v), by)
    BY <1>1, <1>11, DoneFacts DEF Todo, SentBy
  <2>2. \A l \in Kinds : NoneOf(v, l, by) => NoneOf(v, l, new)'
    BY <1>5, <1>6, <1>11 DEF NoneOf
  <2> QED BY <2>1, <2>2 DEF Replaces
<1>12. SentBy(new)'
  BY <1>6, <1>7, <1>8, <1>10, <1>11 DEF SentBy
<1> QED BY <1>12 DEF LatestInv

\* Every step leaves each sender at most its latest link.
LEMMA NextLatest ==
    ASSUME TypeInv, LatestInv, [Next]_vars
    PROVE  LatestInv'
<1>1. Shape
  BY DEF TypeInv
<1> PICK by : SentBy(by)
  BY DEF LatestInv
<1>2. ASSUME UNCHANGED tokens
      PROVE  NoNewLink
  BY <1>2 DEF NoNewLink, Live, Usable
<1>3. ASSUME NoNewLink, NEW v \in Workers, request'[v] = request[v]
      PROVE  Replaces(v, Todo(v), by)'
  BY <1>3, OthersReplace DEF Todo
<1>4. ASSUME NEW w \in Workers, Begin(w)
      PROVE  LatestInv'
  <2>1. NoNewLink
    BY <1>2, <1>4 DEF Begin, RequestToken, EditProfile, ShowLink, EnterCode, EnterWrongCode, ChangeBalance
  <2>2. CASE request' = request
    BY <1>3, <2>1, <2>2, NobodySends
  <2>3. ASSUME NEW copy \in UserRow, NEW S \in Seq(Statements), Begins(w, copy, S), Replaces(w, S, by)
        PROVE  LatestInv'
    <3>1. Todo(w)' = S /\ \A v \in Workers \ {w} : request'[v] = request[v]
      BY <1>1, <2>3, BeginsFacts
    <3>2. Replaces(w, Todo(w), by)'
      BY <2>1, <2>3, <3>1 DEF NoNewLink, NoneOf, Replaces
    <3> QED BY <1>3, <2>1, <3>1, <3>2, NobodySends
  <2> QED BY <1>1, <1>4, <2>2, <2>3, PlansReplace
<1>5. ASSUME NEW w \in Workers, Continue(w), ~CreateToken(w), ~ReadAttempts(w)
      PROVE  LatestInv'
  <2>1. Todo(w) # <<>> /\ Done(w) /\ Replaces(w, Todo(w), by)
    BY <1>1, <1>5, ContinueFacts DEF SentBy
  <2>2. /\ NoNewLink
        /\ \A k \in Kinds : Todo(w)[1] = <<"void", k>> => \A t \in Tokens : ~Live(t, k)'
    BY <1>1, <1>5, StatementsMakeNoLink
  <2>3. ASSUME NEW k \in Kinds, NoneOf(w, k, by) \/ Todo(w)[1] = <<"void", k>>
        PROVE  NoneOf(w, k, by)'
    BY <2>2, <2>3 DEF NoNewLink, NoneOf
  <2>4. Replaces(w, Todo(w), by)'
    <3> SUFFICES ASSUME NEW k \in Kinds, NEW i \in Steps(w)', Todo(w)'[i] = <<"create", k>>
                 PROVE  /\ w \in Senders
                        /\ NoneOf(w, k, by)' \/ \E j \in 1 .. i - 1 : Todo(w)'[j] = <<"void", k>>
                        /\ \A j \in Steps(w)' : Todo(w)'[j] = <<"create", k>> => i = j
      BY DEF Replaces, Steps
    <3>0. Remains(w, by)
      BY <1>1, <2>1, LeftOver
    <3>1. /\ w \in Senders
          /\ \/ NoneOf(w, k, by) \/ Todo(w)[1] = <<"void", k>>
             \/ \E j \in 1 .. i - 1 : Todo(w)'[j] = <<"void", k>>
          /\ \A j \in Steps(w)' : Todo(w)'[j] = <<"create", k>> => i = j
      BY <3>0 DEF Remains
    <3> QED BY <2>3, <3>1
  <2>5. \A v \in Workers \ {w} : request'[v] = request[v]
    BY <1>1, <2>1, DoneFacts
  <2> QED BY <1>3, <2>2, <2>4, <2>5, NobodySends
<1>6. ASSUME NEW w \in Workers, ReadAttempts(w)
      PROVE  LatestInv'
  <2>1. NoNewLink
    BY <1>2, <1>6 DEF ReadAttempts
  <2>2. /\ Len(Todo(w)') = Len(Todo(w)) /\ Steps(w)' = Steps(w)
        /\ Todo(w)[1] = <<"read", "attempts">> /\ Todo(w)'[1] = <<"write", attempts>>
        /\ \A i \in Steps(w) \ {1} : Todo(w)'[i] = Todo(w)[i]
        /\ \A v \in Workers \ {w} : request'[v] = request[v]
    BY <1>1, <1>6, ReadFacts
  <2>3. ASSUME NEW k \in Kinds, NEW what \in {"void", "create"}, NEW i \in Steps(w)
        PROVE  Todo(w)'[i] = <<what, k>> <=> Todo(w)[i] = <<what, k>>
    BY <2>2, <2>3
  <2>4. Replaces(w, Todo(w), by)'
    <3>1. Replaces(w, Todo(w), by)
      BY DEF SentBy
    <3> SUFFICES ASSUME NEW k \in Kinds, NEW i \in Steps(w)', Todo(w)'[i] = <<"create", k>>
                 PROVE  /\ w \in Senders
                        /\ NoneOf(w, k, by)' \/ \E j \in 1 .. i - 1 : Todo(w)'[j] = <<"void", k>>
                        /\ \A j \in Steps(w)' : Todo(w)'[j] = <<"create", k>> => i = j
      BY DEF Replaces, Steps
    <3>2. i \in Steps(w) /\ Todo(w)[i] = <<"create", k>>
      BY <2>2, <2>3
    <3>3. /\ w \in Senders
          /\ NoneOf(w, k, by) \/ \E j \in 1 .. i - 1 : Todo(w)[j] = <<"void", k>>
          /\ \A j \in Steps(w) : Todo(w)[j] = <<"create", k>> => i = j
      BY <3>1, <3>2 DEF Replaces, Steps
    <3>4. \A j \in 1 .. i - 1 : j \in Steps(w)
      <4>1. Len(Todo(w)) \in Nat
        BY <1>1, LenProperties DEF Shape, Todo
      <4> QED BY <3>2, <4>1 DEF Steps
    <3>5. (\E j \in 1 .. i - 1 : Todo(w)[j] = <<"void", k>>) => \E j \in 1 .. i - 1 : Todo(w)'[j] = <<"void", k>>
      BY <2>3, <3>4
    <3>6. NoneOf(w, k, by) => NoneOf(w, k, by)'
      BY <2>1 DEF NoNewLink, NoneOf
    <3>7. \A j \in Steps(w)' : Todo(w)'[j] = <<"create", k>> => i = j
      BY <2>2, <2>3, <3>3
    <3> QED BY <3>3, <3>5, <3>6, <3>7
  <2> QED BY <1>3, <2>1, <2>2, <2>4, NobodySends
<1>7. ASSUME NEW w \in Workers, Crash(w)
      PROVE  LatestInv'
  <2>1. NoNewLink
    BY <1>2, <1>7 DEF Crash
  <2>2. /\ \A v \in Workers \ {w} : request'[v] = request[v]
        /\ Len(Todo(w)') = 0
    BY <1>1, <1>7, CrashFacts
  <2>3. Replaces(w, Todo(w), by)'
    BY <2>2 DEF Replaces
  <2> QED BY <1>3, <2>1, <2>2, <2>3, NobodySends
<1>8. ASSUME NEW t \in Tokens, TokenExpires(t)
      PROVE  LatestInv'
  <2>1. request' = request /\ tokens' = [tokens EXCEPT ![t].expired = TRUE]
    BY <1>8 DEF TokenExpires
  <2>2. \A u \in Tokens : /\ tokens'[u].kind = tokens[u].kind /\ tokens'[u].used = tokens[u].used
                          /\ tokens'[u].expired = IF u = t THEN TRUE ELSE tokens[u].expired
    BY <1>1, <2>1 DEF Shape, Token
  <2>3. NoNewLink
    BY <2>2 DEF NoNewLink, Live, Usable
  <2> QED BY <1>3, <2>1, <2>3, NobodySends
<1>9. CASE LockoutEnds \/ UNCHANGED vars
  <2>1. UNCHANGED tokens /\ request' = request
    BY <1>9 DEF LockoutEnds, vars
  <2> QED BY <1>2, <1>3, <2>1, NobodySends
<1>10. ASSUME NEW w \in Workers, CreateToken(w)
       PROVE  LatestInv'
  BY <1>1, <1>10, CreateLatest
<1> QED BY <1>4, <1>5, <1>6, <1>7, <1>8, <1>9, <1>10 DEF Next

\* There is no link in the beginning.
LEMMA InitLatest == Init => LatestInv
<1> SUFFICES ASSUME Init PROVE LatestInv
  OBVIOUS
<1> PICK by : by = [t \in Tokens |-> None]
  OBVIOUS
<1>1. \A w \in Workers : Todo(w) = <<>>
  BY NoRequestShape DEF Init, Todo
<1>2. \A w \in Workers : Len(Todo(w)) = 0
  BY <1>1, EmptySeq
<1>3. \A w \in Workers : Replaces(w, Todo(w), by)
  BY <1>2 DEF Replaces
<1>4. \A t \in Tokens, k \in Kinds : ~Live(t, k)
  BY DEF Init, NoToken, Live, Usable
<1>5. SentBy(by)
  BY <1>3, <1>4 DEF SentBy
<1> QED BY <1>5 DEF LatestInv

\* Who sent a link tells it from the others, so there are no more than senders.
LEMMA LatestInvSuffices == LatestInv => OnlyLatestIsValid
<1> SUFFICES ASSUME LatestInv, NEW k \in Kinds
             PROVE  Cardinality({t \in Tokens : tokens[t].kind = k /\ Usable(t)}) <= Cardinality(Senders)
  BY DEF OnlyLatestIsValid
<1> PICK by : SentBy(by)
  BY DEF LatestInv
<1> DEFINE L == {t \in Tokens : tokens[t].kind = k /\ Usable(t)}
           f == [t \in L |-> by[t]]
<1>1. \A t \in L : t \in Tokens /\ Live(t, k)
  BY DEF Live
<1> HIDE DEF L
<1>2. f \in [L -> Senders]
  BY <1>1 DEF SentBy
<1>3. \A t, u \in L : f[t] = f[u] => t = u
  BY <1>1 DEF SentBy
<1>4. f \in Injection(L, Senders)
  BY <1>2, <1>3 DEF Injection, IsInjective
<1>5. IsFiniteSet(Senders)
  BY AccountAssumption, FS_Subset DEF Senders
<1>6. Cardinality(L) <= Cardinality(Senders)
  <2> HIDE DEF f
  <2> QED BY <1>4, <1>5, FS_Injection
<1> QED BY <1>6 DEF L

\* Each process that sends links and codes leaves at most one of either kind valid,
\* whatever all of them send, verify, count and change at the same time, and wherever
\* they die: as many processes as may send at once bound the links that are valid,
\* and only the latest is when one sends at a time.
THEOREM LatestOnly == Spec => []OnlyLatestIsValid
<1>1. TypeInv /\ LatestInv /\ [Next]_vars => LatestInv'
  BY NextLatest
<1> QED BY <1>1, InitLatest, LatestInvSuffices, Invariance, PTL DEF Spec

=============================================================================
