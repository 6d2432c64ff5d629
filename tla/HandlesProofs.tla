--------------------------- MODULE HandlesProofs ----------------------------
(***************************************************************************)
(* A shared dataset handle answers for every change that had settled when  *)
(* its use began, for every number of editing and reading threads; at the  *)
(* end, what a handle onto a staged object answers.                        *)
(*                                                                         *)
(* Why the checked invariants are not inductive: they speak of changes     *)
(* whose call has returned, and of answers.  What the counters order is    *)
(* finer.  A change is Addressed, and then Noted, when its call has        *)
(* advanced the address revision and the content revision; a state of the  *)
(* handle that carries the live value of a counter has seen all that was   *)
(* noted under it.  AddressFresh and ContentFresh say so of the memo and   *)
(* of the states the readers are building, and Covers keeps it for the     *)
(* counter value each reader began with.                                   *)
(***************************************************************************)
EXTENDS MCHandles, TLAPS

\* The steps left of a call: before its change, between the change and its revisions, and after.
ToAddress == {<<"address", "content">>, <<"address", "content", "gate", "finalize", "content", "seal">>}
ToContent == {<<"content">>, <<"content", "gate", "finalize", "content", "seal">>}
Before ==
    { <<"gate", "stage", "address", "content">>, <<"stage", "address", "content">>,
      <<"gate", "commit", "address", "content">>, <<"commit", "address", "content">>,
      <<"gate", "append", "content">>, <<"append", "content">>,
      <<"gate", "commit", "address", "content", "gate", "finalize", "content", "seal">>,
      <<"commit", "address", "content", "gate", "finalize", "content", "seal">> }
After == {<<>>, <<"gate", "finalize", "content", "seal">>, <<"finalize", "content", "seal">>, <<"content", "seal">>, <<"seal">>}

Todos == Before \cup ToAddress \cup ToContent \cup After

\* A change whose call has advanced the address revision, and the content revision.
Addressed(c) == \A w \in Writers : c \in made[w] => todo[w] \notin ToAddress
Noted(c)     == \A w \in Writers : c \in made[w] => todo[w] \notin ToAddress \cup ToContent

AddressedTo(n) == \A c \in 1 .. n : Addressed(c)
NotedTo(n)     == \A c \in 1 .. n : Noted(c)

Memos == [content : Nat, address : Nat, at : Nat, header : Nat]

Uses == [pc : {"idle", "compare", "content", "address", "locate", "parse", "install", "answered"},
         since : SUBSET Nat, live : Nat, old : Memos, new : Memos]

TypeOK ==
    /\ changes \in Nat /\ returned \in SUBSET (1 .. changes)
    /\ headers \in Seq(Nat) /\ Current \in Nat \ {0}
    /\ revision \in [address : Nat, content : Nat]
    /\ todo \in [Writers -> Todos]
    /\ made \in [Writers -> SUBSET (1 .. changes)]
    /\ memo \in Memos
    /\ read \in [Readers -> Uses]

\* The dataset's header is the newest, and its changes belong to one call each.
Writing ==
    /\ headers[Current] = changes
    /\ \A i \in 1 .. Current : i # Current => headers[i] < changes
    /\ \A w \in Writers : todo[w] \in Before => made[w] = {}
    /\ \A v, w \in Writers : v # w => made[v] \cap made[w] = {}
    /\ \A c \in returned : Noted(c)

Known(m) == m.content <= revision.content /\ m.address <= revision.address /\ m.at \in 1 .. Current

\* A header is as new as what has been addressed, or noted.
SeesAddressed(header) == \A n \in 1 .. changes : AddressedTo(n) => header >= n
SeesNoted(header)     == \A n \in 1 .. changes : NotedTo(n) => header >= n

AddressFresh(m) == m.address = revision.address => SeesAddressed(headers[m.at])
ContentFresh(m) == m.content = revision.content => SeesNoted(m.header)
ParseFresh(m)   == m.content = revision.content => SeesNoted(headers[m.at])

MemoFresh == Known(memo) /\ AddressFresh(memo) /\ ContentFresh(memo)

\* The state that a use of the handle is building, by the step it has reached.
Builds(u) ==
    /\ u.since \subseteq returned /\ u.live <= revision.content
    /\ u.pc \in {"content", "address", "locate"} => Known(u.old) /\ AddressFresh(u.old)
    /\ u.pc \in {"address", "locate", "parse", "install"} =>
         u.live <= u.new.content /\ u.new.content <= revision.content
    /\ u.pc = "locate" =>
         /\ u.new.address <= revision.address
         /\ u.new.content = revision.content /\ u.new.address = u.old.address =>
              SeesNoted(headers[u.old.at])
    /\ u.pc \in {"parse", "install"} => Known(u.new) /\ AddressFresh(u.new)
    /\ u.pc = "parse" => ParseFresh(u.new)
    /\ u.pc = "install" => ContentFresh(u.new)

\* A header reflects what had settled when the use b began.
Reflects(header, b) == \A n \in 1 .. changes : Settled(b.since, n) => header >= n

\* A state with a content revision at least the one b began with reflects what had settled then.
Covers(b, content, header) == content >= b.live => Reflects(header, b)

Serves(u, b) ==
    /\ u.pc = "locate" /\ u.new.address = u.old.address => Covers(b, u.new.content, headers[u.old.at])
    /\ u.pc = "parse" => Covers(b, u.new.content, headers[u.new.at])
    /\ u.pc = "install" => Covers(b, u.new.content, u.new.header)

Answers(u) == u.pc = "answered" => Reflects(u.new.header, u)

IInv ==
    /\ TypeOK /\ Writing /\ MemoFresh
    /\ \A r \in Readers : Builds(read[r]) /\ Answers(read[r])
                          /\ Covers(read[r], memo.content, memo.header)
    /\ \A q, r \in Readers : Serves(read[q], read[r])

(***************************************************************************)
(* What the invariant says of one reader, and of the fields of a use.      *)
(***************************************************************************)
LEMMA TypeFacts ==
    ASSUME TypeOK
    PROVE  /\ changes \in Nat /\ returned \subseteq 1 .. changes /\ Current \in Nat \ {0}
           /\ revision.content \in Nat /\ revision.address \in Nat
           /\ memo \in Memos
           /\ \A r \in Readers : read[r] \in Uses
  BY Zenon DEF TypeOK

LEMMA HeaderFacts ==
    ASSUME TypeOK, NEW i \in 1 .. Current
    PROVE  headers[i] \in Nat
  <1>1. headers \in Seq(Nat)
    BY Zenon DEF TypeOK
  <1> QED BY <1>1 DEF Current

LEMMA UseFacts ==
    ASSUME NEW u \in Uses
    PROVE  /\ u.since \in SUBSET Nat /\ u.live \in Nat /\ u.old \in Memos /\ u.new \in Memos
  BY Zenon DEF Uses

LEMMA MemoFacts ==
    ASSUME NEW m \in Memos
    PROVE  m.content \in Nat /\ m.address \in Nat /\ m.at \in Nat /\ m.header \in Nat
  BY Zenon DEF Memos

LEMMA InvFacts ==
    ASSUME IInv
    PROVE  /\ TypeOK /\ Writing /\ MemoFresh
           /\ memo \in Memos /\ Known(memo) /\ AddressFresh(memo) /\ ContentFresh(memo)
           /\ revision.content \in Nat /\ revision.address \in Nat
  <1>1. TypeOK /\ Writing /\ MemoFresh
    BY Zenon DEF IInv
  <1> QED BY <1>1, TypeFacts, Zenon DEF MemoFresh

LEMMA ReaderFacts ==
    ASSUME IInv, NEW r \in Readers
    PROVE  /\ read[r] \in Uses /\ Builds(read[r]) /\ Answers(read[r])
           /\ Covers(read[r], memo.content, memo.header)
           /\ \A q \in Readers : Serves(read[r], read[q]) /\ Serves(read[q], read[r])
  <1>1. TypeOK
    BY Zenon DEF IInv
  <1> QED BY <1>1, TypeFacts, Zenon DEF IInv

(***************************************************************************)
(* How a call goes through its steps.                                      *)
(***************************************************************************)
LEMMA CallsBegin ==
    ASSUME NEW call \in {"stage", "commit", "append", "close"}
    PROVE  Calls[call] \in Before
  BY DEF Calls, Relocating, InPlace, Before

LEMMA Disjoint ==
    /\ Before \cap ToAddress = {} /\ Before \cap ToContent = {} /\ Before \cap After = {}
    /\ ToAddress \cap ToContent = {} /\ ToAddress \cap After = {} /\ ToContent \cap After = {}
    /\ <<>> \in After
  <1>1. \A s \in Before : Head(s) \in {"gate", "stage", "commit", "append"}
    BY DEF Before
  <1>2. \A s \in ToAddress : Head(s) = "address"
    BY DEF ToAddress
  <1>3. \A s \in ToContent : Head(s) = "content"
    BY DEF ToContent
  <1>4. Before \cap After = {}
    BY DEF Before, After
  <1>5. ToAddress \cap After = {}
    BY DEF ToAddress, After
  <1>6. ToContent \cap After = {}
    BY DEF ToContent, After
  <1> QED BY <1>1, <1>2, <1>3, <1>4, <1>5, <1>6, Zenon DEF After

LEMMA BeforeMoves ==
    ASSUME NEW s \in Before
    PROVE  /\ s # <<>> /\ Head(s) \in {"gate", "stage", "commit", "append"}
           /\ Head(s) = "gate" => Tail(s) \in Before
           /\ Head(s) \in {"stage", "commit"} => Tail(s) \in ToAddress
           /\ Head(s) = "append" => Tail(s) \in ToContent
  <1>1. CASE s = <<"gate", "stage", "address", "content">>
    BY <1>1 DEF Before
  <1>2. CASE s = <<"stage", "address", "content">>
    BY <1>2 DEF ToAddress
  <1>3. CASE s = <<"gate", "commit", "address", "content">>
    BY <1>3 DEF Before
  <1>4. CASE s = <<"commit", "address", "content">>
    BY <1>4 DEF ToAddress
  <1>5. CASE s = <<"gate", "append", "content">>
    BY <1>5, SMTT(30) DEF Before
  <1>6. CASE s = <<"append", "content">>
    BY <1>6, SMTT(30) DEF ToContent
  <1>7. CASE s = <<"gate", "commit", "address", "content", "gate", "finalize", "content", "seal">>
    BY <1>7, SMTT(30) DEF Before
  <1>8. CASE s = <<"commit", "address", "content", "gate", "finalize", "content", "seal">>
    BY <1>8, SMTT(30) DEF ToAddress
  <1> QED BY <1>1, <1>2, <1>3, <1>4, <1>5, <1>6, <1>7, <1>8, Zenon DEF Before

LEMMA NoteMoves ==
    /\ \A s \in ToAddress : s # <<>> /\ Head(s) = "address" /\ Tail(s) \in ToContent
    /\ \A s \in ToContent : s # <<>> /\ Head(s) = "content" /\ Tail(s) \in After
  <1>1. ASSUME NEW s \in ToAddress PROVE s # <<>> /\ Head(s) = "address" /\ Tail(s) \in ToContent
    <2>1. CASE s = <<"address", "content">>
      BY <2>1, SMTT(30) DEF ToContent
    <2>2. CASE s = <<"address", "content", "gate", "finalize", "content", "seal">>
      BY <2>2 DEF ToContent
    <2> QED BY <2>1, <2>2, Zenon DEF ToAddress
  <1>2. ASSUME NEW s \in ToContent PROVE s # <<>> /\ Head(s) = "content" /\ Tail(s) \in After
    <2>1. CASE s = <<"content">>
      BY <2>1 DEF After
    <2>2. CASE s = <<"content", "gate", "finalize", "content", "seal">>
      BY <2>2 DEF After
    <2> QED BY <2>1, <2>2, Zenon DEF ToContent
  <1> QED BY <1>1, <1>2, Zenon

LEMMA AfterMoves ==
    ASSUME NEW s \in After, s # <<>>
    PROVE  Head(s) \in {"gate", "finalize", "content", "seal"} /\ Tail(s) \in After
  <1>1. CASE s = <<"gate", "finalize", "content", "seal">>
    BY <1>1 DEF After
  <1>2. CASE s = <<"finalize", "content", "seal">>
    BY <1>2 DEF After
  <1>3. CASE s = <<"content", "seal">>
    BY <1>3 DEF After
  <1>4. CASE s = <<"seal">>
    BY <1>4 DEF After
  <1> QED BY <1>1, <1>2, <1>3, <1>4, Zenon DEF After

(***************************************************************************)
(* What the readers rely on when a writer takes a step.                    *)
(***************************************************************************)
Advances ==
    /\ changes' \in Nat /\ changes <= changes'
    /\ returned \subseteq returned'
    /\ Current <= Current' /\ Current' \in Nat
    /\ \A i \in 1 .. Current : headers'[i] \in Nat /\ headers'[i] >= headers[i]
    /\ revision' \in [address : Nat, content : Nat]
    /\ revision.content <= revision'.content /\ revision.address <= revision'.address
    /\ revision'.content = revision.content =>
         \A n \in 1 .. changes' : NotedTo(n)' => n \in 1 .. changes /\ NotedTo(n)
    /\ revision'.address = revision.address =>
         \A i \in 1 .. Current : SeesAddressed(headers[i]) => SeesAddressed(headers[i])'
    /\ UNCHANGED <<memo, read>>

\* A call goes on without a change to the file.
LEMMA QuietStep ==
    ASSUME TypeOK, Writing, NEW w \in Writers, NEW left \in Todos,
           todo' = [todo EXCEPT ![w] = left],
           UNCHANGED <<headers, changes, made, memo, read>>,
           returned' = IF left = <<>> THEN returned \cup made[w] ELSE returned,
           left \in Before => made[w] = {},
           revision' \in [address : Nat, content : Nat],
           revision.content <= revision'.content, revision.address <= revision'.address,
           \/ made[w] = {}
           \/ todo[w] \in After /\ left \in After
           \/ todo[w] \in ToAddress /\ left \in ToContent /\ revision'.address # revision.address
           \/ todo[w] \in ToContent /\ left \in After /\ revision'.content # revision.content
    PROVE  TypeOK' /\ Writing' /\ Advances
  <1>1. /\ todo'[w] = left /\ \A v \in Writers : v # w => todo'[v] = todo[v]
        /\ todo' \in [Writers -> Todos] /\ made[w] \subseteq 1 .. changes
    BY Zenon DEF TypeOK
  <1>2. TypeOK'
    BY <1>1, Zenon DEF TypeOK, Current
  <1>3. left = <<>> => left \in After
    BY Disjoint, Zenon
  <1>4. ASSUME NEW c, revision'.content = revision.content, Noted(c)' PROVE Noted(c)
    BY <1>1, <1>4, Disjoint, Zenon DEF Noted
  <1>5. ASSUME NEW c, revision'.address = revision.address, Addressed(c)' PROVE Addressed(c)
    BY <1>1, <1>5, Disjoint, Zenon DEF Addressed
  <1>6. ASSUME NEW c \in returned' PROVE Noted(c)'
    <2>1. CASE c \in returned
      BY <1>1, <2>1, Disjoint, Zenon DEF Writing, Noted
    <2>2. CASE left \in After /\ c \in made[w]
      BY <1>1, <2>2, Disjoint, Zenon DEF Writing, Noted
    <2> QED BY <1>3, <2>1, <2>2, Zenon
  <1>7. Writing'
    BY <1>1, <1>6, Zenon DEF Writing, Current
  <1>8. Advances
    <2>1. revision'.content = revision.content => \A n \in 1 .. changes : NotedTo(n)' => NotedTo(n)
      BY <1>4, Zenon DEF NotedTo
    <2>2. revision'.address = revision.address =>
            \A n \in 1 .. changes : AddressedTo(n)' => AddressedTo(n)
      BY <1>5, Zenon DEF AddressedTo
    <2>3. \A i \in 1 .. Current : headers[i] \in Nat
      BY SMTT(30) DEF TypeOK, Current
    <2> QED BY <2>1, <2>2, <2>3, SMTT(30) DEF Advances, TypeOK, SeesAddressed, Current
  <1> QED BY <1>2, <1>7, <1>8, Zenon

LEMMA CallStep ==
    ASSUME TypeOK, Writing, NEW w \in Writers,
           NEW call \in {"stage", "commit", "append", "close"}, Call(w, call)
    PROVE  TypeOK' /\ Writing' /\ Advances
  <1>1. /\ todo[w] = <<>> /\ todo'[w] \in Before /\ made'[w] = {}
        /\ \A v \in Writers : v # w => todo'[v] = todo[v] /\ made'[v] = made[v]
        /\ UNCHANGED <<headers, changes, revision, returned, memo, read>>
    BY CallsBegin, Zenon DEF Call, TypeOK
  <1>2. TypeOK'
    BY <1>1, CallsBegin, Zenon DEF Call, TypeOK, Todos, Current
  <1>3. \A c : (Noted(c)' <=> Noted(c)) /\ (Addressed(c)' <=> Addressed(c))
    BY <1>1, Disjoint, Zenon DEF Noted, Addressed
  <1>4. Writing'
    <2>1. \A u, v \in Writers : u # v => made'[u] \cap made'[v] = {}
      BY <1>1, Zenon DEF Writing
    <2>2. \A v \in Writers : todo'[v] \in Before => made'[v] = {}
      BY <1>1, Zenon DEF Writing
    <2> QED BY <1>1, <1>3, <2>1, <2>2, Zenon DEF Writing, Current
  <1>5. Advances
    <2>1. \A n \in 1 .. changes : (NotedTo(n)' <=> NotedTo(n)) /\ (AddressedTo(n)' <=> AddressedTo(n))
      BY <1>3, Zenon DEF NotedTo, AddressedTo
    <2>2. \A i \in 1 .. Current : headers[i] \in Nat
      BY SMTT(30) DEF TypeOK, Current
    <2>3. \A n \in 1 .. changes' : NotedTo(n)' => n \in 1 .. changes /\ NotedTo(n)
      BY <1>1, <2>1, Zenon
    <2>4. \A i \in 1 .. Current : SeesAddressed(headers[i]) => SeesAddressed(headers[i])'
      BY <1>1, <2>1, Zenon DEF SeesAddressed
    <2> QED BY <1>1, <2>2, <2>3, <2>4, SMTT(30) DEF Advances, TypeOK, Current
  <1> QED BY <1>2, <1>4, <1>5, Zenon

\* What a change does to the calls: it is in flight, and nothing else is settled by it.
LEMMA ChangeInFlight ==
    ASSUME TypeOK, Writing, NEW w \in Writers, NEW left \in ToAddress \cup ToContent,
           todo[w] \in Before, todo' = [todo EXCEPT ![w] = left],
           changes' = changes + 1, made' = [made EXCEPT ![w] = {changes'}],
           UNCHANGED returned
    PROVE  /\ made' \in [Writers -> SUBSET (1 .. changes')]
           /\ todo' \in [Writers -> Todos]
           /\ \A v \in Writers : todo'[v] \in Before => made'[v] = {}
           /\ \A u, v \in Writers : u # v => made'[u] \cap made'[v] = {}
           /\ \A c \in returned' : Noted(c)'
           /\ \A n \in 1 .. changes' : NotedTo(n)' => n \in 1 .. changes /\ NotedTo(n)
           /\ \A n \in 1 .. changes : AddressedTo(n)' => AddressedTo(n)
           /\ left \in ToAddress => \A n \in 1 .. changes' : AddressedTo(n)' => n \in 1 .. changes
  <1>1. /\ todo'[w] = left /\ made'[w] = {changes'} /\ made[w] = {}
        /\ \A v \in Writers : v # w => todo'[v] = todo[v] /\ made'[v] = made[v]
        /\ changes \in Nat /\ returned \subseteq 1 .. changes
        /\ \A v \in Writers : made[v] \subseteq 1 .. changes
    BY Zenon DEF TypeOK, Writing
  <1>2. made' \in [Writers -> SUBSET (1 .. changes')] /\ todo' \in [Writers -> Todos]
    <2>1. \A v \in Writers : made'[v] \in SUBSET (1 .. changes')
      BY <1>1
    <2> QED BY <1>1, <2>1, Zenon DEF TypeOK, Todos
  <1>3. \A v \in Writers : todo'[v] \in Before => made'[v] = {}
    BY <1>1, Disjoint DEF Writing
  <1>4. \A u, v \in Writers : u # v => made'[u] \cap made'[v] = {}
    BY <1>1 DEF Writing
  <1>5. ASSUME NEW c \in 1 .. changes PROVE (Noted(c) <=> Noted(c)') /\ (Addressed(c) <=> Addressed(c)')
    <2>1. c # changes'
      BY <1>1
    <2> QED BY <1>1, <2>1 DEF Noted, Addressed
  <1>6. ASSUME NEW c, c = changes + 1 PROVE ~Noted(c)' /\ (left \in ToAddress => ~Addressed(c)')
    BY <1>1, <1>6, Zenon DEF Noted, Addressed
  <1>7. \A c \in returned' : Noted(c)'
    BY <1>1, <1>5, Zenon DEF Writing
  <1>8. ASSUME NEW n \in 1 .. changes', NotedTo(n)' PROVE n \in 1 .. changes /\ NotedTo(n)
    <2>1. n # changes + 1
      BY <1>1, <1>6, <1>8, Zenon DEF NotedTo
    <2> QED BY <1>1, <1>5, <1>8, <2>1 DEF NotedTo
  <1>9. ASSUME NEW n \in 1 .. changes, AddressedTo(n)' PROVE AddressedTo(n)
    BY <1>1, <1>5, <1>9 DEF AddressedTo
  <1>10. ASSUME left \in ToAddress, NEW n \in 1 .. changes', AddressedTo(n)' PROVE n \in 1 .. changes
    <2>1. n # changes + 1
      BY <1>1, <1>6, <1>10, Zenon DEF AddressedTo
    <2> QED BY <1>1, <2>1
  <1> QED BY <1>2, <1>3, <1>4, <1>7, <1>8, <1>9, <1>10, Zenon

\* A commit moves the header.
LEMMA CommitStep ==
    ASSUME TypeOK, Writing, NEW w \in Writers, Commit(w), staged # 0
    PROVE  TypeOK' /\ Writing' /\ Advances
  <1>1. /\ todo[w] \in Before /\ Tail(todo[w]) \in ToAddress /\ Tail(todo[w]) # <<>>
        /\ todo[w] \in Todos
    <2>1. todo[w] \in Todos /\ todo[w] # <<>> /\ Head(todo[w]) = "commit"
      BY Zenon DEF Commit, Takes, TypeOK
    <2> QED BY <2>1, BeforeMoves, NoteMoves, AfterMoves, Zenon DEF Todos
  <1>2. /\ todo' = [todo EXCEPT ![w] = Tail(todo[w])] /\ changes' = changes + 1
        /\ headers' = Append(headers, changes') /\ made' = [made EXCEPT ![w] = {changes'}]
        /\ UNCHANGED <<revision, returned, memo, read>>
    BY <1>1, Zenon DEF Commit, Takes
  <1> DEFINE left == Tail(todo[w])
  <1>3. /\ made' \in [Writers -> SUBSET (1 .. changes')]
        /\ todo' \in [Writers -> Todos]
        /\ \A v \in Writers : todo'[v] \in Before => made'[v] = {}
        /\ \A u, v \in Writers : u # v => made'[u] \cap made'[v] = {}
        /\ \A c \in returned' : Noted(c)'
        /\ \A n \in 1 .. changes' : NotedTo(n)' => n \in 1 .. changes /\ NotedTo(n)
        /\ \A n \in 1 .. changes' : AddressedTo(n)' => n \in 1 .. changes /\ AddressedTo(n)
    BY <1>1, <1>2, ChangeInFlight, Zenon
  <1>4. /\ headers' \in Seq(Nat) /\ Current' = Current + 1 /\ headers'[Current + 1] = changes'
        /\ \A i \in 1 .. Current : headers'[i] = headers[i] /\ headers[i] \in Nat
        /\ changes' \in Nat /\ Current \in Nat
    <2>1. headers \in Seq(Nat) /\ Len(headers) \in Nat \ {0} /\ changes \in Nat
      BY Zenon DEF TypeOK, Current
    <2> QED BY <1>2, <2>1, SMTT(30) DEF Current
  <1>5. TypeOK'
    BY <1>2, <1>3, <1>4, SMTT(30) DEF TypeOK
  <1>6. Writing'
    <2>1. ASSUME NEW i \in 1 .. Current PROVE headers[i] <= changes
      <3>1. headers[Current] = changes /\ (i # Current => headers[i] < changes)
        BY Zenon DEF Writing
      <3>2. headers[i] \in Nat /\ changes \in Nat
        BY HeaderFacts, TypeFacts, Zenon
      <3> QED BY <3>1, <3>2
    <2>2. ASSUME NEW i \in 1 .. Current', i # Current' PROVE headers'[i] < changes'
      <3>1. i \in 1 .. Current
        BY <1>4, <2>2
      <3>2. /\ headers'[i] = headers[i] /\ headers[i] <= changes /\ headers[i] \in Nat
            /\ changes \in Nat /\ changes' = changes + 1
        BY <1>2, <1>4, <2>1, <3>1, TypeFacts, Zenon
      <3> QED BY <3>2
    <2>3. headers'[Current'] = changes'
      BY <1>4, Zenon
    <2> QED BY <1>3, <2>2, <2>3, Zenon DEF Writing
  <1>7. Advances
    <2>1. ASSUME NEW i \in 1 .. Current, SeesAddressed(headers[i]) PROVE SeesAddressed(headers[i])'
      <3>1. headers'[i] = headers[i]
        BY <1>4, Zenon
      <3> QED BY <1>3, <2>1, <3>1, Zenon DEF SeesAddressed
    <2>2. /\ changes' \in Nat /\ changes <= changes' /\ returned \subseteq returned'
          /\ Current <= Current' /\ Current' \in Nat
          /\ revision' \in [address : Nat, content : Nat]
          /\ revision.content <= revision'.content /\ revision.address <= revision'.address
      BY <1>2, <1>4, SMTT(30) DEF TypeOK
    <2>3. \A i \in 1 .. Current : headers'[i] \in Nat /\ headers'[i] >= headers[i]
      BY <1>4, SMTT(30)
    <2> QED BY <1>2, <1>3, <2>1, <2>2, <2>3, Zenon DEF Advances
  <1> QED BY <1>5, <1>6, <1>7, Zenon

\* An append rewrites the header where it stands.
LEMMA AppendStep ==
    ASSUME TypeOK, Writing, NEW w \in Writers, AppendInPlace(w)
    PROVE  TypeOK' /\ Writing' /\ Advances
  <1>1. todo[w] \in Before /\ Tail(todo[w]) \in ToContent /\ Tail(todo[w]) # <<>>
    <2>1. todo[w] \in Todos /\ todo[w] # <<>> /\ Head(todo[w]) = "append"
      BY Zenon DEF AppendInPlace, Takes, TypeOK
    <2> QED BY <2>1, BeforeMoves, NoteMoves, AfterMoves, Zenon DEF Todos
  <1>2. /\ todo' = [todo EXCEPT ![w] = Tail(todo[w])] /\ changes' = changes + 1
        /\ headers' = [headers EXCEPT ![Current] = changes'] /\ made' = [made EXCEPT ![w] = {changes'}]
        /\ UNCHANGED <<revision, returned, memo, read>>
    BY <1>1, Zenon DEF AppendInPlace, Takes
  <1>3. /\ made' \in [Writers -> SUBSET (1 .. changes')]
        /\ todo' \in [Writers -> Todos]
        /\ \A v \in Writers : todo'[v] \in Before => made'[v] = {}
        /\ \A u, v \in Writers : u # v => made'[u] \cap made'[v] = {}
        /\ \A c \in returned' : Noted(c)'
        /\ \A n \in 1 .. changes' : NotedTo(n)' => n \in 1 .. changes /\ NotedTo(n)
        /\ \A n \in 1 .. changes : AddressedTo(n)' => AddressedTo(n)
    BY <1>1, <1>2, ChangeInFlight, Zenon
  <1>4. /\ headers' \in Seq(Nat) /\ Current' = Current /\ headers'[Current] = changes'
        /\ \A i \in 1 .. Current : i # Current => headers'[i] = headers[i]
        /\ \A i \in 1 .. Current : headers[i] \in Nat
        /\ changes' \in Nat /\ changes \in Nat /\ Current \in Nat
    <2>1. headers \in Seq(Nat) /\ Len(headers) \in Nat \ {0} /\ changes \in Nat
      BY Zenon DEF TypeOK, Current
    <2> QED BY <1>2, <2>1, SMTT(30) DEF Current
  <1>5. TypeOK'
    BY <1>2, <1>3, <1>4, SMTT(30) DEF TypeOK
  <1>6. Writing'
    <2>1. \A i \in 1 .. Current : i # Current => headers[i] < changes
      BY Zenon DEF Writing
    <2>2. \A i \in 1 .. Current' : i # Current' => headers'[i] < changes'
      BY <1>2, <1>4, <2>1, SMTT(30)
    <2>3. headers'[Current'] = changes'
      BY <1>4, Zenon
    <2> QED BY <1>3, <2>2, <2>3, Zenon DEF Writing
  <1>7. ASSUME NEW i \in 1 .. Current, SeesAddressed(headers[i]) PROVE SeesAddressed(headers[i])'
    <2>1. CASE i = Current
      BY <1>4, <2>1 DEF SeesAddressed
    <2>2. CASE i # Current
      <3> SUFFICES ASSUME NEW n \in 1 .. changes', AddressedTo(n)' PROVE headers'[i] >= n
        BY Zenon DEF SeesAddressed
      <3>1. n <= changes => headers'[i] >= n
        BY <1>3, <1>4, <1>7, <2>2, SMTT(30) DEF SeesAddressed
      <3>2. n # changes + 1
        <4> SUFFICES ASSUME n = changes + 1 PROVE FALSE
          BY Zenon
        <4>1. changes # 0 => AddressedTo(changes)
          <5>1. ASSUME changes # 0 PROVE \A c \in 1 .. changes : Addressed(c)'
            BY <1>4, SMTT(30) DEF AddressedTo
          <5>2. ASSUME NEW c \in 1 .. changes, Addressed(c)' PROVE Addressed(c)
            BY <1>1, <1>2, <5>2, Zenon DEF Addressed, TypeOK, Writing
          <5> QED BY <5>1, <5>2, Zenon DEF AddressedTo
        <4>2. headers[i] >= changes
          BY <1>4, <1>7, <4>1, SMTT(30) DEF SeesAddressed
        <4>3. headers[i] < changes
          BY <2>2, Zenon DEF Writing
        <4> QED BY <1>4, <4>2, <4>3, SMTT(30)
      <3> QED BY <1>2, <1>4, <3>1, <3>2, SMTT(30)
    <2> QED BY <2>1, <2>2, Zenon
  <1>8. Advances
    <2>1. headers[Current] = changes
      BY Zenon DEF Writing
    <2>2. \A i \in 1 .. Current : headers'[i] \in Nat /\ headers'[i] >= headers[i]
      BY <1>2, <1>4, <2>1, SMTT(30)
    <2>3. /\ changes' \in Nat /\ changes <= changes' /\ returned \subseteq returned'
          /\ Current <= Current' /\ Current' \in Nat
          /\ revision' \in [address : Nat, content : Nat]
          /\ revision.content <= revision'.content /\ revision.address <= revision'.address
      BY <1>2, <1>4, SMTT(30) DEF TypeOK
    <2> QED BY <1>2, <1>3, <1>7, <2>2, <2>3, Zenon DEF Advances
  <1> QED BY <1>5, <1>6, <1>8, Zenon

\* A step of a call that advances no counter.
LEMMA UnnotedStep ==
    ASSUME TypeOK, Writing, NEW w \in Writers, NEW left \in Todos,
           todo' = [todo EXCEPT ![w] = left],
           returned' = IF left = <<>> THEN returned \cup made[w] ELSE returned,
           UNCHANGED <<headers, changes, made, revision, memo, read>>,
           left \in Before => made[w] = {},
           made[w] = {} \/ (todo[w] \in After /\ left \in After)
    PROVE  TypeOK' /\ Writing' /\ Advances
  <1>1. /\ revision' \in [address : Nat, content : Nat]
        /\ revision.content <= revision'.content /\ revision.address <= revision'.address
    BY DEF TypeOK
  <1> QED BY <1>1, QuietStep, Zenon

LEMMA WriterSteps ==
    ASSUME TypeOK, Writing, NEW w \in Writers,
           \/ \E call \in {"stage", "commit", "append", "close"} : Call(w, call)
           \/ Gate(w) \/ Stage(w) \/ Commit(w) \/ CommitRejected(w) \/ AppendInPlace(w)
           \/ Finalize(w) \/ Note(w) \/ Seal(w)
    PROVE  TypeOK' /\ Writing' /\ Advances
  <1>1. /\ todo[w] \in Todos /\ (todo[w] \in Before => made[w] = {})
        /\ revision \in [address : Nat, content : Nat]
    BY Zenon DEF TypeOK, Writing
  <1>2. CASE \E call \in {"stage", "commit", "append", "close"} : Call(w, call)
    BY <1>2, CallStep, Zenon
  <1>3. CASE Gate(w)
    <2>1. todo[w] # <<>> /\ Head(todo[w]) = "gate" /\ todo[w] \in Before \cup After
      BY <1>1, <1>3, NoteMoves, Zenon DEF Gate, Takes, Todos
    <2>2. Tail(todo[w]) \in Before => made[w] = {}
      BY <1>1, <2>1, AfterMoves, Disjoint, Zenon
    <2>3. Tail(todo[w]) \in Before \cup After
      BY <2>1, BeforeMoves, AfterMoves, Zenon
    <2>4. made[w] = {} \/ (todo[w] \in After /\ Tail(todo[w]) \in After)
      BY <1>1, <2>1, AfterMoves, Zenon
    <2>5. PICK left : left = (IF closed THEN <<>> ELSE Tail(todo[w])) /\ Takes(w, {"gate"}, left)
      BY <1>3, ZenonT(30) DEF Gate
    <2>6. /\ left \in Todos /\ (left \in Before => made[w] = {})
          /\ made[w] = {} \/ (todo[w] \in After /\ left \in After)
      BY <2>1, <2>2, <2>3, <2>4, <2>5, <1>1, Disjoint, Zenon DEF Todos
    <2>7. /\ todo' = [todo EXCEPT ![w] = left]
          /\ returned' = IF left = <<>> THEN returned \cup made[w] ELSE returned
          /\ UNCHANGED <<headers, changes, made, revision, memo, read>>
      BY <1>3, <2>5, Zenon DEF Gate, Takes
    <2> QED BY <2>6, <2>7, UnnotedStep, Zenon
  <1>4. CASE Stage(w)
    <2>1. todo[w] # <<>> /\ Head(todo[w]) = "stage" /\ todo[w] \in Before
      BY <1>1, <1>4, NoteMoves, AfterMoves, Zenon DEF Stage, Takes, Todos
    <2>2. Tail(todo[w]) \in ToAddress /\ Tail(todo[w]) \in Todos
      BY <2>1, BeforeMoves, Zenon DEF Todos
    <2>3. /\ Tail(todo[w]) \in Before => made[w] = {}
          /\ made[w] = {} \/ (todo[w] \in After /\ Tail(todo[w]) \in After)
      BY <1>1, <2>1, <2>2, Disjoint, Zenon
    <2>4. /\ todo' = [todo EXCEPT ![w] = Tail(todo[w])]
          /\ returned' = IF Tail(todo[w]) = <<>> THEN returned \cup made[w] ELSE returned
          /\ UNCHANGED <<headers, changes, made, revision, memo, read>>
      BY <1>4, Zenon DEF Stage, Takes
    <2> QED BY <2>2, <2>3, <2>4, UnnotedStep, Zenon
  <1>5. CASE Commit(w) /\ staged = 0
    <2>1. todo[w] # <<>> /\ Head(todo[w]) = "commit" /\ todo[w] \in Before
      BY <1>1, <1>5, NoteMoves, AfterMoves, Zenon DEF Commit, Takes, Todos
    <2>2. Tail(todo[w]) \in ToAddress /\ Tail(todo[w]) \in Todos
      BY <2>1, BeforeMoves, Zenon DEF Todos
    <2>3. /\ Tail(todo[w]) \in Before => made[w] = {}
          /\ made[w] = {} \/ (todo[w] \in After /\ Tail(todo[w]) \in After)
      BY <1>1, <2>1, <2>2, Disjoint, Zenon
    <2>4. /\ todo' = [todo EXCEPT ![w] = Tail(todo[w])]
          /\ returned' = IF Tail(todo[w]) = <<>> THEN returned \cup made[w] ELSE returned
          /\ UNCHANGED <<headers, changes, made, revision, memo, read>>
      BY <1>5, Zenon DEF Commit, Takes
    <2> QED BY <2>2, <2>3, <2>4, UnnotedStep, Zenon
  <1>6. CASE Commit(w) /\ staged # 0
    BY <1>6, CommitStep, Zenon
  <1>7. CASE CommitRejected(w)
    <2>1. todo[w] # <<>> /\ Head(todo[w]) = "commit" /\ todo[w] \in Before
      BY <1>1, <1>7, NoteMoves, AfterMoves, Zenon DEF CommitRejected, Takes, Todos
    <2>2. PICK left : left = <<"address", "content">> /\ Takes(w, {"commit"}, left)
      BY <1>7, Zenon DEF CommitRejected, Relocating
    <2>3. left \in ToAddress /\ left \in Todos
      BY <2>2, Zenon DEF Todos, ToAddress
    <2>4. /\ left \in Before => made[w] = {}
          /\ made[w] = {} \/ (todo[w] \in After /\ left \in After)
      BY <1>1, <2>1, <2>3, Disjoint, Zenon
    <2>5. /\ todo' = [todo EXCEPT ![w] = left]
          /\ returned' = IF left = <<>> THEN returned \cup made[w] ELSE returned
          /\ UNCHANGED <<headers, changes, made, revision, memo, read>>
      BY <1>7, <2>2, Zenon DEF CommitRejected, Takes
    <2> QED BY <2>3, <2>4, <2>5, UnnotedStep, Zenon
  <1>8. CASE AppendInPlace(w)
    BY <1>8, AppendStep, Zenon
  <1>9. CASE Finalize(w)
    <2>1. todo[w] # <<>> /\ Head(todo[w]) = "finalize" /\ todo[w] \in After
      BY <1>1, <1>9, NoteMoves, BeforeMoves, Zenon DEF Finalize, Takes, Todos
    <2>2. Tail(todo[w]) \in After /\ Tail(todo[w]) \in Todos /\ Tail(todo[w]) \notin Before
      BY <2>1, AfterMoves, Disjoint, Zenon DEF Todos
    <2>3. /\ todo' = [todo EXCEPT ![w] = Tail(todo[w])]
          /\ returned' = IF Tail(todo[w]) = <<>> THEN returned \cup made[w] ELSE returned
          /\ UNCHANGED <<headers, changes, made, revision, memo, read>>
      BY <1>9, Zenon DEF Finalize, Takes
    <2> QED BY <2>1, <2>2, <2>3, UnnotedStep, ZenonT(30)
  <1>10. CASE Note(w)
    <2>1. todo[w] # <<>> /\ Head(todo[w]) \in {"address", "content"} /\ todo[w] \notin Before
      BY <1>1, <1>10, BeforeMoves, Zenon DEF Note, Takes
    <2>2. /\ revision' \in [address : Nat, content : Nat]
          /\ revision.content <= revision'.content /\ revision.address <= revision'.address
          /\ Head(todo[w]) = "address" => revision'.address # revision.address
          /\ Head(todo[w]) = "content" => revision'.content # revision.content
      BY <1>1, <1>10, <2>1, SMTT(30) DEF Note
    <2>3. /\ Tail(todo[w]) \in Todos /\ Tail(todo[w]) \notin Before
          /\ \/ todo[w] \in After /\ Tail(todo[w]) \in After
             \/ todo[w] \in ToAddress /\ Tail(todo[w]) \in ToContent /\ Head(todo[w]) = "address"
             \/ todo[w] \in ToContent /\ Tail(todo[w]) \in After /\ Head(todo[w]) = "content"
      BY <1>1, <2>1, NoteMoves, AfterMoves, Disjoint, Zenon DEF Todos
    <2>4. /\ todo' = [todo EXCEPT ![w] = Tail(todo[w])]
          /\ returned' = IF Tail(todo[w]) = <<>> THEN returned \cup made[w] ELSE returned
          /\ UNCHANGED <<headers, changes, made, memo, read>>
      BY <1>10, Zenon DEF Note, Takes
    <2> QED BY <2>2, <2>3, <2>4, QuietStep, Zenon
  <1>11. CASE Seal(w)
    <2>1. todo[w] # <<>> /\ Head(todo[w]) = "seal" /\ todo[w] \in After
      BY <1>1, <1>11, NoteMoves, BeforeMoves, Zenon DEF Seal, Takes, Todos
    <2>2. Tail(todo[w]) \in After /\ Tail(todo[w]) \in Todos /\ Tail(todo[w]) \notin Before
      BY <2>1, AfterMoves, Disjoint, Zenon DEF Todos
    <2>3. /\ todo' = [todo EXCEPT ![w] = Tail(todo[w])]
          /\ returned' = IF Tail(todo[w]) = <<>> THEN returned \cup made[w] ELSE returned
          /\ UNCHANGED <<headers, changes, made, revision, memo, read>>
      BY <1>11, Zenon DEF Seal, Takes
    <2> QED BY <2>1, <2>2, <2>3, UnnotedStep, Zenon
  <1> QED BY <1>2, <1>3, <1>4, <1>5, <1>6, <1>7, <1>8, <1>9, <1>10, <1>11, Zenon

(***************************************************************************)
(* A writer's step leaves the readers what they rely on.                   *)
(***************************************************************************)
LEMMA AdvanceFacts ==
    ASSUME TypeOK, Advances
    PROVE  /\ revision'.content \in Nat /\ revision'.address \in Nat
           /\ revision.content <= revision'.content /\ revision.address <= revision'.address
           /\ returned \subseteq returned' /\ memo' = memo /\ read' = read
           /\ Current \in Nat /\ Current' \in Nat /\ Current <= Current'
  BY TypeFacts, Zenon DEF Advances

LEMMA KnownStays ==
    ASSUME TypeOK, Advances, NEW m \in Memos, Known(m)
    PROVE  Known(m)'
  <1>1. m.content \in Nat /\ m.address \in Nat /\ revision.content \in Nat /\ revision.address \in Nat
    BY MemoFacts, TypeFacts, Zenon
  <1>2. m.content <= revision'.content
    BY <1>1, AdvanceFacts DEF Known
  <1>3. m.address <= revision'.address
    BY <1>1, AdvanceFacts DEF Known
  <1>4. m.at \in 1 .. Current'
    BY AdvanceFacts DEF Known
  <1> QED BY <1>2, <1>3, <1>4, Zenon DEF Known

LEMMA AddressFreshStays ==
    ASSUME TypeOK, Advances, NEW m \in Memos, Known(m), AddressFresh(m)
    PROVE  AddressFresh(m)'
  <1> SUFFICES ASSUME m.address = revision'.address PROVE SeesAddressed(headers[m.at])'
    BY Zenon DEF AddressFresh
  <1>1. revision'.address = revision.address
    BY AdvanceFacts, TypeFacts DEF Known
  <1>2. m.at \in 1 .. Current /\ SeesAddressed(headers[m.at])
    BY <1>1, Zenon DEF AddressFresh, Known
  <1> QED BY <1>1, <1>2, Zenon DEF Advances

\* What no later note has followed has been seen by a header that is no older.
LEMMA SeesNotedStays ==
    ASSUME TypeOK, Advances, revision'.content = revision.content,
           NEW h \in Nat, NEW k \in Nat, k >= h, SeesNoted(h)
    PROVE  SeesNoted(k)'
  <1> SUFFICES ASSUME NEW n \in 1 .. changes', NotedTo(n)' PROVE k >= n
    BY Zenon DEF SeesNoted
  <1>1. n \in 1 .. changes /\ NotedTo(n)
    BY Zenon DEF Advances
  <1>2. h >= n /\ n \in Nat
    BY <1>1 DEF SeesNoted
  <1> QED BY <1>2

LEMMA ContentFreshStays ==
    ASSUME TypeOK, Advances, NEW m \in Memos, Known(m), ContentFresh(m)
    PROVE  ContentFresh(m)'
  <1> SUFFICES ASSUME m.content = revision'.content PROVE SeesNoted(m.header)'
    BY Zenon DEF ContentFresh
  <1>1. revision'.content = revision.content
    BY AdvanceFacts, TypeFacts DEF Known
  <1>2. SeesNoted(m.header)
    BY <1>1, Zenon DEF ContentFresh
  <1>3. m.header \in Nat /\ m.header >= m.header
    BY MemoFacts
  <1> QED BY <1>1, <1>2, <1>3, SeesNotedStays, Zenon

\* A header in place is rewritten by newer ones only.
LEMMA HeaderStays ==
    ASSUME TypeOK, Advances, NEW i \in 1 .. Current
    PROVE  headers[i] \in Nat /\ headers'[i] \in Nat /\ headers'[i] >= headers[i]
  BY HeaderFacts, Zenon DEF Advances

LEMMA ParseStays ==
    ASSUME TypeOK, Advances, NEW i \in 1 .. Current, NEW content \in Nat,
           content <= revision.content, content = revision'.content,
           content = revision.content => SeesNoted(headers[i])
    PROVE  SeesNoted(headers[i])'
  <1>1. revision'.content = revision.content
    BY AdvanceFacts, TypeFacts
  <1>2. PICK h, k : h = headers[i] /\ k = headers'[i]
    BY Zenon
  <1>3. h \in Nat /\ k \in Nat /\ k >= h
    BY <1>2, HeaderStays, Zenon
  <1>4. SeesNoted(k)'
    BY <1>1, <1>2, <1>3, SeesNotedStays, Zenon
  <1> QED BY <1>2, <1>4, Zenon

\* What had settled when a use began is among the changes made.
LEMMA SettledWasMade ==
    ASSUME TypeOK, NEW b, b.since \subseteq returned, NEW n \in Nat \ {0}, Settled(b.since, n)
    PROVE  n \in 1 .. changes
  <1>1. n \in 1 .. n
    OBVIOUS
  <1>2. n \in returned
    BY <1>1, Zenon DEF Settled
  <1> QED BY <1>2, TypeFacts, Zenon

LEMMA ReflectStays ==
    ASSUME TypeOK, Advances, NEW b, b.since \subseteq returned,
           NEW h \in Nat, NEW k \in Nat, k >= h, Reflects(h, b)
    PROVE  Reflects(k, b)'
  <1> SUFFICES ASSUME NEW n \in 1 .. changes', Settled(b.since, n) PROVE k >= n
    BY Zenon DEF Reflects, Settled
  <1>1. n \in Nat \ {0}
    BY DEF Advances
  <1>2. n \in 1 .. changes
    BY <1>1, SettledWasMade, Zenon
  <1>3. h >= n
    BY <1>2, Zenon DEF Reflects
  <1> QED BY <1>1, <1>3

LEMMA CoverStays ==
    ASSUME TypeOK, Advances, NEW b, b.since \subseteq returned, NEW content,
           NEW h \in Nat, NEW k \in Nat, k >= h, Covers(b, content, h)
    PROVE  Covers(b, content, k)'
  BY ReflectStays, Zenon DEF Covers

\* ... and of the header a use has found.
LEMMA CoverStaysAt ==
    ASSUME TypeOK, Advances, NEW b, b.since \subseteq returned, NEW content,
           NEW i \in 1 .. Current, Covers(b, content, headers[i])
    PROVE  Covers(b, content, headers[i])'
  <1>1. PICK h, k : h = headers[i] /\ k = headers'[i]
    BY Zenon
  <1>2. h \in Nat /\ k \in Nat /\ k >= h
    BY <1>1, HeaderStays, Zenon
  <1>3. Covers(b, content, k)'
    BY <1>1, <1>2, CoverStays, Zenon
  <1> QED BY <1>1, <1>3, Zenon

\* The state a use is building stays fit for it.
LEMMA BuildsStays ==
    ASSUME TypeOK, Advances, NEW u \in Uses, Builds(u)
    PROVE  Builds(u)'
  <1>1. u.old \in Memos /\ u.new \in Memos /\ u.live \in Nat
    BY UseFacts, Zenon
  <1>2. u.new.content \in Nat /\ u.new.address \in Nat
    BY <1>1, MemoFacts, Zenon
  <1>3. u.since \subseteq returned' /\ u.live <= revision'.content
    BY <1>1, AdvanceFacts, TypeFacts, SMTT(30) DEF Builds
  <1>4. ASSUME u.pc \in {"content", "address", "locate"} PROVE Known(u.old)' /\ AddressFresh(u.old)'
    <2>1. Known(u.old) /\ AddressFresh(u.old)
      BY <1>4, Zenon DEF Builds
    <2> QED BY <1>1, <2>1, KnownStays, AddressFreshStays, Zenon
  <1>5. ASSUME u.pc \in {"address", "locate", "parse", "install"}
        PROVE  u.live <= u.new.content /\ u.new.content <= revision'.content
    <2>1. u.live <= u.new.content /\ u.new.content <= revision.content
      BY <1>5, Zenon DEF Builds
    <2> QED BY <1>2, <2>1, AdvanceFacts, TypeFacts, SMTT(30)
  <1>6. ASSUME u.pc = "locate"
        PROVE  /\ u.new.address <= revision'.address
               /\ u.new.content = revision'.content /\ u.new.address = u.old.address =>
                    SeesNoted(headers[u.old.at])'
    <2>1. /\ Known(u.old) /\ u.new.content <= revision.content /\ u.new.address <= revision.address
          /\ u.new.content = revision.content /\ u.new.address = u.old.address =>
               SeesNoted(headers[u.old.at])
      BY <1>6, Zenon DEF Builds
    <2>2. u.new.address <= revision'.address
      BY <1>2, <2>1, AdvanceFacts, TypeFacts
    <2>3. PICK i \in 1 .. Current : i = u.old.at
      BY <2>1, Zenon DEF Known
    <2>4. ASSUME u.new.content = revision'.content, u.new.address = u.old.address
          PROVE  SeesNoted(headers[i])'
      BY <1>2, <2>1, <2>3, <2>4, ParseStays, Zenon
    <2> QED BY <2>2, <2>3, <2>4, Zenon
  <1>7. ASSUME u.pc \in {"parse", "install"} PROVE Known(u.new)' /\ AddressFresh(u.new)'
    <2>1. Known(u.new) /\ AddressFresh(u.new)
      BY <1>7, Zenon DEF Builds
    <2> QED BY <1>1, <2>1, KnownStays, AddressFreshStays, Zenon
  <1>8. ASSUME u.pc = "parse" PROVE ParseFresh(u.new)'
    <2>1. Known(u.new) /\ ParseFresh(u.new) /\ u.new.content <= revision.content
      BY <1>8, Zenon DEF Builds
    <2>2. PICK i \in 1 .. Current : i = u.new.at
      BY <2>1, Zenon DEF Known
    <2>3. ASSUME u.new.content = revision'.content PROVE SeesNoted(headers[i])'
      BY <1>2, <2>1, <2>2, <2>3, ParseStays, Zenon DEF ParseFresh
    <2> QED BY <2>2, <2>3, Zenon DEF ParseFresh
  <1>9. ASSUME u.pc = "install" PROVE ContentFresh(u.new)'
    <2>1. Known(u.new) /\ ContentFresh(u.new)
      BY <1>9, Zenon DEF Builds
    <2> QED BY <1>1, <2>1, ContentFreshStays, Zenon
  <1> QED BY <1>3, <1>4, <1>5, <1>6, <1>7, <1>8, <1>9, Zenon DEF Builds

LEMMA ServesStays ==
    ASSUME TypeOK, Advances, NEW u \in Uses, Builds(u), NEW b \in Uses, Builds(b), Serves(u, b)
    PROVE  Serves(u, b)'
  <1>1. b.since \subseteq returned /\ u.new.header \in Nat /\ u.new.header >= u.new.header
    BY UseFacts, MemoFacts, SMTT(30) DEF Builds
  <1>2. ASSUME u.pc = "locate", u.new.address = u.old.address
        PROVE  Covers(b, u.new.content, headers[u.old.at])'
    <2>1. u.old.at \in 1 .. Current /\ Covers(b, u.new.content, headers[u.old.at])
      BY <1>2, Zenon DEF Builds, Known, Serves
    <2> QED BY <1>1, <2>1, CoverStaysAt, Zenon
  <1>3. ASSUME u.pc = "parse" PROVE Covers(b, u.new.content, headers[u.new.at])'
    <2>1. u.new.at \in 1 .. Current /\ Covers(b, u.new.content, headers[u.new.at])
      BY <1>3, Zenon DEF Builds, Known, Serves
    <2> QED BY <1>1, <2>1, CoverStaysAt, Zenon
  <1>4. ASSUME u.pc = "install" PROVE Covers(b, u.new.content, u.new.header)'
    <2>1. Covers(b, u.new.content, u.new.header)
      BY <1>4, Zenon DEF Serves
    <2> QED BY <1>1, <2>1, CoverStays, Zenon
  <1> QED BY <1>2, <1>3, <1>4, Zenon DEF Serves

LEMMA WriterKeeps ==
    ASSUME IInv, TypeOK', Writing', Advances
    PROVE  IInv'
  <1>1. TypeOK
    BY InvFacts, Zenon
  <1>2. memo' = memo /\ read' = read
    BY <1>1, AdvanceFacts, Zenon
  <1>3. MemoFresh'
    <2>1. PICK m \in Memos : m = memo /\ m = memo' /\ Known(m) /\ AddressFresh(m) /\ ContentFresh(m)
      BY <1>2, InvFacts, Zenon
    <2>2. Known(m)' /\ AddressFresh(m)' /\ ContentFresh(m)'
      BY <1>1, <2>1, KnownStays, AddressFreshStays, ContentFreshStays, Zenon
    <2> QED BY <2>1, <2>2, Zenon DEF MemoFresh
  <1>4. ASSUME NEW r \in Readers
        PROVE  Builds(read[r])' /\ Answers(read[r])' /\ Covers(read[r], memo.content, memo.header)'
    <2>1. PICK u \in Uses : /\ u = read[r] /\ u = read'[r] /\ Builds(u) /\ Answers(u)
                            /\ Covers(u, memo.content, memo.header)
      BY <1>2, ReaderFacts, Zenon
    <2>2. PICK m \in Memos : m = memo /\ m = memo'
      BY <1>2, InvFacts, Zenon
    <2>3. Builds(u)'
      BY <1>1, <2>1, BuildsStays, Zenon
    <2>4. u.since \subseteq returned
      BY <2>1, Zenon DEF Builds
    <2>5. /\ u.new.header \in Nat /\ u.new.header >= u.new.header
          /\ m.header \in Nat /\ m.header >= m.header
      BY UseFacts, MemoFacts, SMTT(30)
    <2>6. Covers(u, m.content, m.header)'
      BY <1>1, <2>1, <2>2, <2>4, <2>5, CoverStays, Zenon
    <2>7. Answers(u)'
      BY <1>1, <2>1, <2>4, <2>5, ReflectStays, Zenon DEF Answers
    <2> QED BY <2>1, <2>2, <2>3, <2>6, <2>7, Zenon
  <1>5. ASSUME NEW q \in Readers, NEW r \in Readers PROVE Serves(read[q], read[r])'
    <2>1. PICK u \in Uses : u = read[q] /\ u = read'[q] /\ Builds(u)
      BY <1>2, ReaderFacts, Zenon
    <2>2. PICK b \in Uses : b = read[r] /\ b = read'[r] /\ Builds(b)
      BY <1>2, ReaderFacts, Zenon
    <2>3. Serves(u, b)
      BY <2>1, <2>2, ReaderFacts, Zenon
    <2>4. Serves(u, b)'
      BY <1>1, <2>1, <2>2, <2>3, ServesStays, Zenon
    <2> QED BY <2>1, <2>2, <2>4, Zenon
  <1> QED BY <1>3, <1>4, <1>5, Zenon DEF IInv

(***************************************************************************)
(* A reader's step.                                                        *)
(***************************************************************************)
Fixed == UNCHANGED <<headers, changes, revision, todo, made, returned>>

LEMMA FixedFacts ==
    ASSUME Fixed
    PROVE  /\ headers' = headers /\ changes' = changes /\ revision' = revision /\ returned' = returned
           /\ todo' = todo /\ made' = made /\ Current' = Current
  BY Zenon DEF Fixed, Current

LEMMA FixedChanges ==
    ASSUME Fixed
    PROVE  /\ \A n : AddressedTo(n)' <=> AddressedTo(n)
           /\ \A n : NotedTo(n)' <=> NotedTo(n)
  BY FixedFacts, Zenon DEF AddressedTo, NotedTo, Addressed, Noted

LEMMA FixedSees ==
    ASSUME Fixed
    PROVE  /\ \A h : SeesAddressed(h)' <=> SeesAddressed(h)
           /\ \A h : SeesNoted(h)' <=> SeesNoted(h)
  BY FixedFacts, FixedChanges, Zenon DEF SeesAddressed, SeesNoted

LEMMA FixedMemo ==
    ASSUME Fixed, NEW m
    PROVE  /\ Known(m)' <=> Known(m)
           /\ AddressFresh(m)' <=> AddressFresh(m)
           /\ ContentFresh(m)' <=> ContentFresh(m)
           /\ ParseFresh(m)' <=> ParseFresh(m)
  <1>1. Known(m)' <=> Known(m)
    BY FixedFacts, Zenon DEF Known
  <1>2. AddressFresh(m)' <=> AddressFresh(m)
    <2>1. SeesAddressed(headers[m.at])' <=> SeesAddressed(headers[m.at])
      BY FixedFacts, FixedSees, Zenon
    <2> QED BY <2>1, FixedFacts, Zenon DEF AddressFresh
  <1>3. ContentFresh(m)' <=> ContentFresh(m)
    BY FixedFacts, FixedSees, Zenon DEF ContentFresh
  <1>4. ParseFresh(m)' <=> ParseFresh(m)
    <2>1. SeesNoted(headers[m.at])' <=> SeesNoted(headers[m.at])
      BY FixedFacts, FixedSees, Zenon
    <2> QED BY <2>1, FixedFacts, Zenon DEF ParseFresh
  <1> QED BY <1>1, <1>2, <1>3, <1>4, Zenon

LEMMA FixedBuilds ==
    ASSUME Fixed, NEW u, Builds(u)
    PROVE  Builds(u)'
  <1>1. /\ Known(u.old)' <=> Known(u.old)
        /\ AddressFresh(u.old)' <=> AddressFresh(u.old)
        /\ Known(u.new)' <=> Known(u.new)
        /\ AddressFresh(u.new)' <=> AddressFresh(u.new)
        /\ ContentFresh(u.new)' <=> ContentFresh(u.new)
        /\ ParseFresh(u.new)' <=> ParseFresh(u.new)
    BY FixedMemo, Zenon
  <1>2. SeesNoted(headers[u.old.at])' <=> SeesNoted(headers[u.old.at])
    BY FixedFacts, FixedSees, Zenon
  <1> QED BY <1>1, <1>2, FixedFacts, Zenon DEF Builds

LEMMA FixedCovers ==
    ASSUME Fixed
    PROVE  /\ \A h, b : Reflects(h, b)' <=> Reflects(h, b)
           /\ \A b, content, h : Covers(b, content, h)' <=> Covers(b, content, h)
  <1>1. ASSUME NEW h, NEW b PROVE Reflects(h, b)' <=> Reflects(h, b)
    BY FixedFacts, Zenon DEF Reflects, Settled
  <1> QED BY <1>1, Zenon DEF Covers

LEMMA FixedServes ==
    ASSUME Fixed, NEW u, NEW b, Serves(u, b)
    PROVE  Serves(u, b)'
  <1>1. /\ Covers(b, u.new.content, headers[u.old.at])' <=> Covers(b, u.new.content, headers[u.old.at])
        /\ Covers(b, u.new.content, headers[u.new.at])' <=> Covers(b, u.new.content, headers[u.new.at])
        /\ Covers(b, u.new.content, u.new.header)' <=> Covers(b, u.new.content, u.new.header)
    BY FixedFacts, FixedCovers, Zenon
  <1> QED BY <1>1, Zenon DEF Serves

\* The use of one reader becomes `to`, and the memo becomes m.
LEMMA ReaderKeeps ==
    ASSUME IInv, Fixed, NEW r \in Readers, NEW to \in Uses, NEW m \in Memos,
           read' = [read EXCEPT ![r] = to], memo' = m,
           Known(m), AddressFresh(m), ContentFresh(m),
           Builds(to), Answers(to), Serves(to, to), Covers(to, m.content, m.header),
           \A q \in Readers : /\ Serves(to, read[q]) /\ Serves(read[q], to)
                              /\ Covers(read[q], m.content, m.header)
    PROVE  IInv'
  <1>1. TypeOK /\ Writing
    BY InvFacts, Zenon
  <1>2. \A q \in Readers : read'[q] = IF q = r THEN to ELSE read[q]
    <2>1. read \in [Readers -> Uses]
      BY <1>1, Zenon DEF TypeOK
    <2> QED BY <2>1, Zenon
  <1>3. TypeOK'
    <2>1. read' \in [Readers -> Uses]
      BY <1>1, Zenon DEF TypeOK
    <2> QED BY <1>1, <2>1, FixedFacts, Zenon DEF TypeOK
  <1>4. Writing'
    <2>1. \A c : Noted(c)' <=> Noted(c)
      BY FixedFacts, Zenon DEF Noted
    <2> QED BY <1>1, <2>1, FixedFacts, Zenon DEF Writing
  <1>5. MemoFresh'
    <2>1. Known(m)' /\ AddressFresh(m)' /\ ContentFresh(m)'
      BY FixedMemo, Zenon
    <2> QED BY <2>1, Zenon DEF MemoFresh
  <1>6. ASSUME NEW q \in Readers
        PROVE  Builds(read[q])' /\ Answers(read[q])' /\ Covers(read[q], memo.content, memo.header)'
    <2>1. PICK u : u = read'[q] /\ Builds(u) /\ Answers(u) /\ Covers(u, m.content, m.header)
      BY <1>2, ReaderFacts, Zenon
    <2>2. Builds(u)'
      BY <2>1, FixedBuilds, Zenon
    <2>3. Answers(u)'
      BY <2>1, FixedCovers, Zenon DEF Answers
    <2>4. Covers(u, m.content, m.header)'
      BY <2>1, FixedCovers, Zenon
    <2> QED BY <2>1, <2>2, <2>3, <2>4, Zenon
  <1>7. ASSUME NEW p \in Readers, NEW q \in Readers PROVE Serves(read[p], read[q])'
    <2>1. PICK u, b : u = read'[p] /\ b = read'[q] /\ Serves(u, b)
      BY <1>2, ReaderFacts, Zenon
    <2>2. Serves(u, b)'
      BY <2>1, FixedServes, Zenon
    <2> QED BY <2>1, <2>2, Zenon
  <1> QED BY <1>3, <1>4, <1>5, <1>6, <1>7, Zenon DEF IInv

\* What has settled is noted, and what is noted is addressed.
LEMMA SettledIsNoted ==
    ASSUME Writing, NEW since, since \subseteq returned, NEW n \in Nat, Settled(since, n)
    PROVE  NotedTo(n) /\ AddressedTo(n)
  <1>1. \A c \in 1 .. n : Noted(c)
    BY Zenon DEF Writing, Settled
  <1> QED BY <1>1, Zenon DEF NotedTo, AddressedTo, Noted, Addressed

\* A state that has seen what is noted covers a use that begins now.
LEMMA FreshCovers ==
    ASSUME IInv, NEW b, b.since = returned, b.live = revision.content,
           NEW content \in Nat, content <= revision.content,
           NEW header, content = revision.content => SeesNoted(header)
    PROVE  Covers(b, content, header)
  <1> SUFFICES ASSUME content >= b.live, NEW n \in 1 .. changes, Settled(b.since, n) PROVE header >= n
    BY Zenon DEF Covers, Reflects
  <1>1. content = revision.content
    <2>1. revision.content \in Nat
      BY InvFacts, Zenon
    <2> QED BY <2>1
  <1>2. NotedTo(n)
    <2>1. Writing /\ n \in Nat
      BY InvFacts
    <2> QED BY <2>1, SettledIsNoted, Zenon
  <1> QED BY <1>1, <1>2, Zenon DEF SeesNoted

LEMMA IdleIsCovered == \A content, header : Covers(Idle, content, header) /\ Reflects(header, Idle)
  <1> SUFFICES ASSUME NEW header, NEW n \in 1 .. changes, Settled({}, n) PROVE FALSE
    BY Zenon DEF Idle, Covers, Reflects
  <1>1. n \in Nat /\ 1 <= n /\ 1 .. n \subseteq {}
    BY SMTT(30) DEF Settled
  <1>2. 1 \in 1 .. n
    BY <1>1, SMTT(30)
  <1> QED BY <1>1, <1>2, Zenon

LEMMA IdleServes == \A b : Serves(Idle, b) /\ Serves(b, Idle)
  <1>1. Idle.pc = "idle"
    BY Zenon DEF Idle
  <1>2. \A b : Serves(Idle, b)
    BY <1>1, Zenon DEF Serves
  <1> QED BY <1>2, IdleIsCovered, Zenon DEF Serves

\* A use goes on.
LEMMA UseGoesOn ==
    ASSUME IInv, Fixed, memo' = memo, NEW r \in Readers, NEW to \in Uses,
           read' = [read EXCEPT ![r] = to], to.since = read[r].since, to.live = read[r].live,
           Builds(to), Answers(to), \A q \in Readers : Serves(to, read[q])
    PROVE  IInv'
  <1>1. \A content, header : Covers(read[r], content, header) => Covers(to, content, header)
    BY Zenon DEF Covers, Reflects
  <1>2. \A u : Serves(u, read[r]) => Serves(u, to)
    BY <1>1, Zenon DEF Serves
  <1>3. Serves(to, to) /\ Covers(to, memo.content, memo.header)
    BY <1>1, <1>2, ReaderFacts, Zenon
  <1>4. ASSUME NEW q \in Readers
        PROVE  Serves(to, read[q]) /\ Serves(read[q], to) /\ Covers(read[q], memo.content, memo.header)
    BY <1>2, ReaderFacts, Zenon
  <1>5. PICK m \in Memos : m = memo /\ Known(m) /\ AddressFresh(m) /\ ContentFresh(m)
    BY InvFacts, Zenon
  <1> QED BY <1>3, <1>4, <1>5, ReaderKeeps, Zenon

LEMMA IdleIsUse == Idle \in Uses /\ Idle.pc = "idle" /\ Idle.since = {} /\ Idle.live = 0
  BY Zenon DEF Idle, NoMemo, Uses, Memos

\* A use ends.
LEMMA UseEnds ==
    ASSUME IInv, Fixed, memo' = memo, NEW r \in Readers, read' = [read EXCEPT ![r] = Idle]
    PROVE  IInv'
  <1>1. PICK to \in Uses : to = Idle
    BY IdleIsUse, ZenonT(30)
  <1>2. Builds(to) /\ Answers(to)
    <2>1. 0 <= revision.content
      BY InvFacts, SMTT(30)
    <2>2. to.pc = "idle" /\ to.since = {} /\ to.live = 0
      BY <1>1, IdleIsUse, Zenon
    <2> QED BY <2>1, <2>2, Zenon DEF Builds, Answers
  <1>3. /\ \A b : Serves(to, b) /\ Serves(b, to)
        /\ \A content, header : Covers(to, content, header)
    BY <1>1, IdleServes, IdleIsCovered, Zenon
  <1>4. PICK m \in Memos : m = memo /\ Known(m) /\ AddressFresh(m) /\ ContentFresh(m)
    BY InvFacts, Zenon
  <1>5. \A q \in Readers : Covers(read[q], m.content, m.header)
    BY <1>4, ReaderFacts, Zenon
  <1> QED BY <1>1, <1>2, <1>3, <1>4, <1>5, ReaderKeeps, Zenon

LEMMA LoadStep ==
    ASSUME IInv, NEW r \in Readers, Load(r)
    PROVE  IInv'
  <1>1. PICK to : /\ to = [Idle EXCEPT !.pc = "compare", !.since = returned, !.live = revision.content]
                  /\ read' = [read EXCEPT ![r] = to] /\ Fixed /\ memo' = memo
    BY Zenon DEF Load, Reads, Fixed
  <1>2. to \in Uses /\ to.pc = "compare" /\ to.since = returned /\ to.live = revision.content
    <2>1. returned \in SUBSET Nat /\ revision.content \in Nat
      BY InvFacts, TypeFacts, SMTT(30)
    <2> QED BY <1>1, <2>1, IdleIsUse, Zenon DEF Uses
  <1>3. PICK m \in Memos : m = memo /\ Known(m) /\ AddressFresh(m) /\ ContentFresh(m)
    BY InvFacts, ZenonT(30)
  <1>4. Builds(to) /\ Answers(to) /\ \A b : Serves(to, b)
    <2>1. revision.content <= revision.content
      BY InvFacts, SMTT(30)
    <2> QED BY <1>2, <2>1, Zenon DEF Builds, Answers, Serves
  <1>5. Covers(to, m.content, m.header)
    <2>1. m.content \in Nat /\ m.content <= revision.content
      BY <1>3, MemoFacts, Zenon DEF Known
    <2> QED BY <1>2, <1>3, <2>1, FreshCovers, Zenon DEF ContentFresh
  <1>6. ASSUME NEW q \in Readers PROVE Serves(read[q], to) /\ Covers(read[q], m.content, m.header)
    <2>1. PICK u \in Uses : u = read[q] /\ Builds(u)
      BY ReaderFacts, Zenon
    <2>2. u.new.content \in Nat
      BY UseFacts, MemoFacts, Zenon
    <2>3. ASSUME u.pc = "locate", u.new.address = u.old.address
          PROVE  Covers(to, u.new.content, headers[u.old.at])
      <3>1. /\ u.new.content <= revision.content
            /\ u.new.content = revision.content => SeesNoted(headers[u.old.at])
        BY <2>1, <2>3, Zenon DEF Builds
      <3> QED BY <1>2, <2>2, <3>1, FreshCovers, Zenon
    <2>4. ASSUME u.pc = "parse" PROVE Covers(to, u.new.content, headers[u.new.at])
      <3>1. u.new.content <= revision.content /\ ParseFresh(u.new)
        BY <2>1, <2>4, Zenon DEF Builds
      <3> QED BY <1>2, <2>2, <3>1, FreshCovers, Zenon DEF ParseFresh
    <2>5. ASSUME u.pc = "install" PROVE Covers(to, u.new.content, u.new.header)
      <3>1. u.new.content <= revision.content /\ ContentFresh(u.new)
        BY <2>1, <2>5, Zenon DEF Builds
      <3> QED BY <1>2, <2>2, <3>1, FreshCovers, Zenon DEF ContentFresh
    <2>6. Serves(u, to)
      BY <2>3, <2>4, <2>5, Zenon DEF Serves
    <2> QED BY <1>3, <2>1, <2>6, ReaderFacts, Zenon
  <1> QED BY <1>1, <1>2, <1>3, <1>4, <1>5, <1>6, ReaderKeeps, Zenon

LEMMA CompareStep ==
    ASSUME IInv, NEW r \in Readers, Compare(r)
    PROVE  IInv'
  <1>1. PICK u \in Uses : u = read[r] /\ Builds(u) /\ Covers(u, memo.content, memo.header)
    BY ReaderFacts, Zenon
  <1>2. PICK to : /\ to = IF memo.content = u.live THEN [u EXCEPT !.pc = "answered", !.new = memo]
                                                   ELSE [u EXCEPT !.pc = "content", !.old = memo]
                  /\ read' = [read EXCEPT ![r] = to] /\ Fixed /\ memo' = memo
    BY <1>1, ZenonT(30) DEF Compare, Reads, Fixed, Answer
  <1>3. /\ memo \in Memos /\ Known(memo) /\ AddressFresh(memo) /\ u.live \in Nat
        /\ u.since \subseteq returned /\ u.live <= revision.content
    BY <1>1, InvFacts, UseFacts, Zenon DEF Builds
  <1>4. CASE memo.content = u.live
    <2>1. /\ to \in Uses /\ to.since = u.since /\ to.live = u.live /\ to.pc = "answered"
          /\ to.new = memo
      BY <1>2, <1>3, <1>4, ZenonT(30) DEF Uses
    <2>2. Builds(to) /\ \A b : Serves(to, b)
      BY <1>3, <2>1, Zenon DEF Builds, Serves
    <2>3. Reflects(memo.header, u)
      BY <1>1, <1>3, <1>4, SMTT(30) DEF Covers
    <2>4. Answers(to)
      BY <2>1, <2>3, Zenon DEF Answers, Reflects
    <2> QED BY <1>1, <1>2, <2>1, <2>2, <2>4, UseGoesOn, Zenon
  <1>5. CASE memo.content # u.live
    <2>1. /\ to \in Uses /\ to.since = u.since /\ to.live = u.live /\ to.pc = "content"
          /\ to.old = memo
      BY <1>2, <1>3, <1>5, ZenonT(30) DEF Uses
    <2>2. Builds(to) /\ Answers(to) /\ \A b : Serves(to, b)
      BY <1>3, <2>1, Zenon DEF Builds, Answers, Serves
    <2> QED BY <1>1, <1>2, <2>1, <2>2, UseGoesOn, Zenon
  <1> QED BY <1>4, <1>5, Zenon

LEMMA LoadContentStep ==
    ASSUME IInv, NEW r \in Readers, LoadContent(r)
    PROVE  IInv'
  <1>1. PICK u \in Uses : u = read[r] /\ Builds(u) /\ u.pc = "content"
    BY ReaderFacts, Zenon DEF LoadContent, Reads
  <1>2. PICK to : /\ to = [u EXCEPT !.pc = "address", !.new.content = revision.content]
                  /\ read' = [read EXCEPT ![r] = to] /\ Fixed /\ memo' = memo
    BY <1>1, Zenon DEF LoadContent, Reads, Fixed
  <1>3. revision.content \in Nat /\ revision.content <= revision.content
    BY InvFacts, SMTT(30)
  <1>4. /\ to \in Uses /\ to.since = u.since /\ to.live = u.live /\ to.pc = "address"
        /\ to.old = u.old /\ to.new.content = revision.content
    BY <1>2, <1>3, Zenon DEF Uses, Memos
  <1>5. /\ u.since \subseteq returned /\ u.live <= revision.content
        /\ Known(u.old) /\ AddressFresh(u.old)
    BY <1>1, Zenon DEF Builds
  <1>6. Builds(to) /\ Answers(to) /\ \A b : Serves(to, b)
    BY <1>3, <1>4, <1>5, Zenon DEF Builds, Answers, Serves
  <1> QED BY <1>1, <1>2, <1>4, <1>6, UseGoesOn, Zenon

LEMMA LoadAddressStep ==
    ASSUME IInv, NEW r \in Readers, LoadAddress(r)
    PROVE  IInv'
  <1>1. PICK u \in Uses : u = read[r] /\ Builds(u) /\ u.pc = "address"
    BY ReaderFacts, Zenon DEF LoadAddress, Reads
  <1>2. PICK to : /\ to = [u EXCEPT !.pc = "locate", !.new.address = revision.address]
                  /\ read' = [read EXCEPT ![r] = to] /\ Fixed /\ memo' = memo
    BY <1>1, Zenon DEF LoadAddress, Reads, Fixed
  <1>3. revision.address \in Nat /\ revision.address <= revision.address
    BY InvFacts, SMTT(30)
  <1>4. /\ to \in Uses /\ to.since = u.since /\ to.live = u.live /\ to.pc = "locate"
        /\ to.old = u.old /\ to.new.content = u.new.content /\ to.new.address = revision.address
    BY <1>2, <1>3, ZenonT(30) DEF Uses, Memos
  <1>5. /\ u.since \subseteq returned /\ u.live <= revision.content
        /\ Known(u.old) /\ AddressFresh(u.old)
        /\ u.live <= u.new.content /\ u.new.content <= revision.content
    BY <1>1, Zenon DEF Builds
  <1>6. to.new.address = to.old.address => SeesAddressed(headers[to.old.at])
    BY <1>4, <1>5, ZenonT(30) DEF AddressFresh
  <1>7. Builds(to)
    <2>1. \A n : NotedTo(n) => AddressedTo(n)
      BY Zenon DEF AddressedTo, NotedTo, Addressed, Noted
    <2>2. \A h : SeesAddressed(h) => SeesNoted(h)
      BY <2>1, Zenon DEF SeesAddressed, SeesNoted
    <2>3. to.new.address = to.old.address => SeesNoted(headers[to.old.at])
      BY <1>6, <2>2, Zenon
    <2> QED BY <1>3, <1>4, <1>5, <2>3, Zenon DEF Builds
  <1>8. ASSUME NEW q \in Readers PROVE Serves(to, read[q])
    <2>1. read[q].since \subseteq returned
      BY ReaderFacts, Zenon DEF Builds
    <2>2. ASSUME to.new.address = to.old.address, NEW n \in 1 .. changes, Settled(read[q].since, n)
          PROVE  headers[to.old.at] >= n
      <3>1. Writing /\ n \in Nat
        BY InvFacts, SMTT(30)
      <3>2. AddressedTo(n)
        BY <2>1, <2>2, <3>1, SettledIsNoted, Zenon
      <3> QED BY <1>6, <2>2, <3>2, Zenon DEF SeesAddressed
    <2>3. to.new.address = to.old.address => Covers(read[q], to.new.content, headers[to.old.at])
      BY <2>2, Zenon DEF Covers, Reflects
    <2> QED BY <1>4, <2>3, Zenon DEF Serves
  <1>9. Answers(to)
    BY <1>4, Zenon DEF Answers
  <1> QED BY <1>1, <1>2, <1>4, <1>7, <1>8, <1>9, UseGoesOn, Zenon

LEMMA LocateStep ==
    ASSUME IInv, NEW r \in Readers, Locate(r)
    PROVE  IInv'
  <1>1. PICK u \in Uses : u = read[r] /\ Builds(u) /\ u.pc = "locate"
    BY ReaderFacts, Zenon DEF Locate, Reads
  <1>2. Fixed /\ memo' = memo
    BY Zenon DEF Locate, Reads, Fixed
  <1>3. CASE ~(Kept(r) \/ named)
    <2>1. read' = [read EXCEPT ![r] = Idle]
      BY <1>3, Zenon DEF Locate, Reads
    <2> QED BY <1>2, <2>1, UseEnds, Zenon
  <1>4. CASE Kept(r) \/ named
    <2>1. PICK at : at = IF Kept(r) THEN u.old.at ELSE Current
      BY Zenon
    <2>2. PICK to : to = [u EXCEPT !.pc = "parse", !.new.at = at] /\ read' = [read EXCEPT ![r] = to]
      BY <1>1, <1>4, <2>1, ZenonT(30) DEF Locate, Reads
    <2>3. /\ u.since \subseteq returned /\ u.live <= revision.content
          /\ Known(u.old) /\ AddressFresh(u.old)
          /\ u.live <= u.new.content /\ u.new.content <= revision.content
          /\ u.new.address <= revision.address
          /\ u.new.content = revision.content /\ u.new.address = u.old.address =>
               SeesNoted(headers[u.old.at])
      BY <1>1, Zenon DEF Builds
    <2>4. at \in Nat /\ at \in 1 .. Current
      <3>1. Current \in Nat \ {0}
        BY InvFacts, TypeFacts, Zenon
      <3> QED BY <2>1, <2>3, <3>1, SMTT(30) DEF Known
    <2>5. /\ to \in Uses /\ to.since = u.since /\ to.live = u.live /\ to.pc = "parse"
          /\ to.new.content = u.new.content /\ to.new.address = u.new.address /\ to.new.at = at
      BY <2>2, <2>4, Zenon DEF Uses, Memos
    <2>6. Kept(r) => u.new.address = u.old.address /\ at = u.old.at
      BY <1>1, <2>1, Zenon DEF Kept
    <2>7. ~Kept(r) => \A n \in 1 .. changes : headers[at] >= n
      <3>1. headers[Current] = changes /\ changes \in Nat
        BY InvFacts, TypeFacts, Zenon DEF Writing
      <3> QED BY <2>1, <3>1, SMTT(30)
    <2>8. Builds(to)
      <3>1. Known(to.new)
        BY <2>3, <2>4, <2>5, Zenon DEF Known
      <3>2. AddressFresh(to.new)
        <4>1. Kept(r) => AddressFresh(to.new)
          BY <2>3, <2>5, <2>6, Zenon DEF AddressFresh
        <4>2. ~Kept(r) => SeesAddressed(headers[at])
          BY <2>7, Zenon DEF SeesAddressed
        <4> QED BY <2>5, <4>1, <4>2, Zenon DEF AddressFresh
      <3>3. ParseFresh(to.new)
        <4>1. Kept(r) => ParseFresh(to.new)
          BY <2>3, <2>5, <2>6, ZenonT(30) DEF ParseFresh
        <4>2. ~Kept(r) => SeesNoted(headers[at])
          BY <2>7, Zenon DEF SeesNoted
        <4> QED BY <2>5, <4>1, <4>2, Zenon DEF ParseFresh
      <3> QED BY <2>3, <2>5, <3>1, <3>2, <3>3, Zenon DEF Builds
    <2>9. ASSUME NEW q \in Readers PROVE Serves(to, read[q])
      <3>1. u.new.address = u.old.address => Covers(read[q], u.new.content, headers[u.old.at])
        BY <1>1, ReaderFacts, Zenon DEF Serves
      <3>2. Kept(r) => Covers(read[q], u.new.content, headers[at])
        BY <2>6, <3>1, Zenon
      <3>3. ~Kept(r) => Covers(read[q], u.new.content, headers[at])
        BY <2>7, Zenon DEF Covers, Reflects
      <3>4. Covers(read[q], to.new.content, headers[to.new.at])
        BY <2>5, <3>2, <3>3, Zenon
      <3> QED BY <2>5, <3>4, Zenon DEF Serves
    <2>10. Answers(to)
      BY <2>5, Zenon DEF Answers
    <2> QED BY <1>1, <1>2, <2>2, <2>5, <2>8, <2>9, <2>10, UseGoesOn, Zenon
  <1> QED BY <1>3, <1>4, Zenon

LEMMA ParseStep ==
    ASSUME IInv, NEW r \in Readers, Parse(r)
    PROVE  IInv'
  <1>1. PICK u \in Uses : u = read[r] /\ Builds(u) /\ u.pc = "parse"
    BY ReaderFacts, Zenon DEF Parse, Reads
  <1>2. PICK to : /\ to = [u EXCEPT !.pc = "install", !.new.header = headers[u.new.at]]
                  /\ read' = [read EXCEPT ![r] = to] /\ Fixed /\ memo' = memo
    BY <1>1, ZenonT(30) DEF Parse, Reads, Fixed
  <1>3. /\ u.since \subseteq returned /\ u.live <= revision.content
        /\ u.live <= u.new.content /\ u.new.content <= revision.content
        /\ Known(u.new) /\ AddressFresh(u.new) /\ ParseFresh(u.new)
    BY <1>1, Zenon DEF Builds
  <1>4. headers[u.new.at] \in Nat
    BY <1>3, InvFacts, HeaderFacts, Zenon DEF Known
  <1>5. /\ to \in Uses /\ to.since = u.since /\ to.live = u.live /\ to.pc = "install"
        /\ to.new.content = u.new.content /\ to.new.address = u.new.address /\ to.new.at = u.new.at
        /\ to.new.header = headers[u.new.at]
    BY <1>2, <1>4, Zenon DEF Uses, Memos
  <1>6. Known(to.new) /\ AddressFresh(to.new) /\ ContentFresh(to.new)
    BY <1>3, <1>5, ZenonT(30) DEF Known, AddressFresh, ContentFresh, ParseFresh
  <1>7. Builds(to) /\ Answers(to)
    BY <1>3, <1>5, <1>6, Zenon DEF Builds, Answers
  <1>8. ASSUME NEW q \in Readers PROVE Serves(to, read[q])
    <2>1. Covers(read[q], to.new.content, to.new.header)
      BY <1>1, <1>5, ReaderFacts, Zenon DEF Serves
    <2> QED BY <1>5, <2>1, Zenon DEF Serves
  <1> QED BY <1>1, <1>2, <1>5, <1>7, <1>8, UseGoesOn, Zenon

LEMMA InstallStep ==
    ASSUME IInv, NEW r \in Readers, Install(r)
    PROVE  IInv'
  <1>1. PICK u \in Uses : u = read[r] /\ Builds(u) /\ u.pc = "install"
    BY ReaderFacts, Zenon DEF Install, Reads
  <1>2. PICK to : to = [u EXCEPT !.pc = "answered", !.new = u.new] /\ read' = [read EXCEPT ![r] = to] /\ Fixed
    BY <1>1, Zenon DEF Install, Reads, Fixed, Answer
  <1>3. PICK m : m = memo' /\ m = IF u.new.content >= memo.content THEN u.new ELSE memo
    BY <1>1, Zenon DEF Install
  <1>4. /\ to \in Uses /\ to.since = u.since /\ to.live = u.live /\ to.pc = "answered"
        /\ to.new = u.new
    BY <1>2, Zenon DEF Uses
  <1>5. /\ u.since \subseteq returned /\ u.live <= revision.content /\ u.live <= u.new.content
        /\ Known(u.new) /\ AddressFresh(u.new) /\ ContentFresh(u.new)
    BY <1>1, Zenon DEF Builds
  <1>6. m \in Memos /\ Known(m) /\ AddressFresh(m) /\ ContentFresh(m)
    BY <1>3, <1>5, InvFacts, UseFacts, Zenon
  <1>7. Builds(to) /\ \A b : Serves(to, b)
    BY <1>4, <1>5, Zenon DEF Builds, Serves
  <1>8. \A q \in Readers : Covers(read[q], u.new.content, u.new.header)
    BY <1>1, ReaderFacts, Zenon DEF Serves
  <1>9. Answers(to)
    <2>1. Reflects(u.new.header, u)
      <3>1. u.new.content >= u.live
        BY <1>5, UseFacts, MemoFacts, Zenon
      <3> QED BY <1>1, <1>8, <3>1, Zenon DEF Covers
    <2> QED BY <1>4, <2>1, Zenon DEF Answers, Reflects
  <1>10. \A q \in Readers : Covers(read[q], m.content, m.header)
    BY <1>3, <1>8, ReaderFacts, Zenon
  <1>11. \A content, header : Covers(u, content, header) => Covers(to, content, header)
    BY <1>4, Zenon DEF Covers, Reflects
  <1>12. \A q \in Readers : Serves(read[q], to)
    <2>1. ASSUME NEW q \in Readers PROVE Serves(read[q], to)
      <3>1. Serves(read[q], u)
        BY <1>1, ReaderFacts, Zenon
      <3> QED BY <1>11, <3>1, Zenon DEF Serves
    <2> QED BY <2>1, Zenon
  <1>13. Covers(to, m.content, m.header)
    BY <1>1, <1>10, <1>11, Zenon
  <1> QED BY <1>2, <1>3, <1>4, <1>6, <1>7, <1>9, <1>10, <1>12, <1>13, ReaderKeeps, Zenon

(***************************************************************************)
(* The theorems.                                                           *)
(***************************************************************************)
LEMMA InitEstablishes == Init => IInv
  <1> SUFFICES ASSUME Init PROVE IInv
    BY Zenon
  <1>1. /\ Current = 1 /\ headers \in Seq(Nat) /\ headers[1] = 0 /\ changes = 0 /\ returned = {}
        /\ revision = [address |-> 0, content |-> 0] /\ memo = NoMemo
    BY SMTT(30) DEF Init, Current
  <1>2. Idle \in Uses /\ NoMemo \in Memos /\ <<>> \in Todos
    BY Disjoint, Zenon DEF Idle, NoMemo, Uses, Memos, Todos
  <1>3. TypeOK
    BY <1>1, <1>2, SMTT(30) DEF Init, TypeOK
  <1>4. Writing
    BY <1>1, SMTT(30) DEF Init, Writing
  <1>5. MemoFresh
    BY <1>1, SMTT(30) DEF MemoFresh, Known, AddressFresh, ContentFresh, SeesAddressed, SeesNoted, NoMemo
  <1>6. ASSUME NEW r \in Readers PROVE read[r] = Idle
    BY Zenon DEF Init
  <1>7. Builds(Idle) /\ Answers(Idle)
    BY <1>1, SMTT(30) DEF Builds, Answers, Idle
  <1> QED BY <1>3, <1>4, <1>5, <1>6, <1>7, IdleServes, IdleIsCovered, Zenon DEF IInv

LEMMA StutterKeeps == IInv /\ UNCHANGED vars => IInv'
  <1> SUFFICES ASSUME IInv, UNCHANGED vars PROVE IInv'
    BY Zenon
  <1>1. /\ headers' = headers /\ changes' = changes /\ revision' = revision /\ returned' = returned
        /\ todo' = todo /\ made' = made /\ memo' = memo /\ read' = read /\ Current' = Current
    BY Zenon DEF vars, Current
  <1>2. TypeOK /\ Writing
    BY InvFacts, Zenon
  <1>3. TypeOK'
    BY <1>1, <1>2, Zenon DEF TypeOK
  <1>4. Writing'
    <2>1. \A c : Noted(c)' <=> Noted(c)
      BY <1>1, Zenon DEF Noted
    <2> QED BY <1>1, <1>2, <2>1, Zenon DEF Writing
  <1>5. Advances
    <2>1. Fixed
      BY <1>1, Zenon DEF Fixed
    <2>2. /\ changes \in Nat /\ changes <= changes /\ Current \in Nat /\ Current <= Current
          /\ revision \in [address : Nat, content : Nat]
          /\ revision.content <= revision.content /\ revision.address <= revision.address
      BY <1>2, SMTT(30) DEF TypeOK
    <2>3. ASSUME NEW i \in 1 .. Current
          PROVE  /\ headers'[i] \in Nat /\ headers'[i] >= headers[i]
                 /\ SeesAddressed(headers[i]) => SeesAddressed(headers[i])'
      <3>1. headers[i] \in Nat /\ headers[i] >= headers[i]
        BY <1>2, HeaderFacts, SMTT(30)
      <3>2. SeesAddressed(headers[i])' <=> SeesAddressed(headers[i])
        BY <1>1, <2>1, FixedSees, Zenon
      <3> QED BY <1>1, <3>1, <3>2, Zenon
    <2>4. \A n \in 1 .. changes' : NotedTo(n)' => n \in 1 .. changes /\ NotedTo(n)
      BY <1>1, <2>1, FixedChanges, Zenon
    <2> QED BY <1>1, <2>2, <2>3, <2>4, Zenon DEF Advances
  <1> QED BY <1>3, <1>4, <1>5, WriterKeeps, Zenon

LEMMA NextKeeps == IInv /\ [Next]_vars => IInv'
  <1> SUFFICES ASSUME IInv, [Next]_vars PROVE IInv'
    BY Zenon
  <1>1. ASSUME NEW w \in Writers,
               \/ \E call \in {"stage", "commit", "append", "close"} : Call(w, call)
               \/ Gate(w) \/ Stage(w) \/ Commit(w) \/ CommitRejected(w) \/ AppendInPlace(w)
               \/ Finalize(w) \/ Note(w) \/ Seal(w)
        PROVE  IInv'
    <2>1. TypeOK /\ Writing
      BY InvFacts, Zenon
    <2>2. TypeOK' /\ Writing' /\ Advances
      BY <1>1, <2>1, WriterSteps, Zenon
    <2> QED BY <2>2, WriterKeeps, Zenon
  <1>2. ASSUME NEW r \in Readers, Use(r) PROVE IInv'
    <2>1. Fixed /\ memo' = memo /\ read' = [read EXCEPT ![r] = Idle]
      BY <1>2, Zenon DEF Use, Reads, Fixed
    <2> QED BY <2>1, UseEnds, Zenon
  <1>3. CASE UNCHANGED vars
    BY <1>3, StutterKeeps, Zenon
  <1> QED BY <1>1, <1>2, <1>3, LoadStep, CompareStep, LoadContentStep, LoadAddressStep, LocateStep,
             ParseStep, InstallStep, Zenon DEF Next

LEMMA Invariance == Spec => []IInv
  BY InitEstablishes, NextKeeps, PTL DEF Spec

(***************************************************************************)
(* Dataset::resolved answers for every change whose call had returned      *)
(* when the use of the handle began, for any number of threads editing and *)
(* reading through the file: the order in which with_engine_mut advances   *)
(* the address and the content revision, and in which resolved loads them, *)
(* is enough, without a lock held across the use.                          *)
(***************************************************************************)
THEOREM AnswersStayFresh == Spec => []AnswersAreFresh
  <1>1. IInv => AnswersAreFresh
    BY Zenon DEF IInv, Answers, Reflects, AnswersAreFresh
  <1> QED BY <1>1, Invariance, PTL

(***************************************************************************)
(* The memo that resolved keeps is believed no longer than it is true,     *)
(* whichever of the threads that parsed a header installs last.            *)
(***************************************************************************)
THEOREM MemoStaysFresh == Spec => []BelievedMemoIsFresh
  <1>1. ASSUME IInv PROVE BelievedMemoIsFresh
    <2> SUFFICES ASSUME NEW n \in 1 .. changes, Settled(returned, n)
                 PROVE  /\ memo.content = revision.content => memo.header >= n
                        /\ memo.address = revision.address => headers[memo.at] >= n
      BY Zenon DEF BelievedMemoIsFresh
    <2>1. NotedTo(n) /\ AddressedTo(n)
      <3>1. Writing /\ n \in Nat
        BY <1>1, InvFacts, SMTT(30)
      <3> QED BY <3>1, SettledIsNoted, Zenon
    <2>2. AddressFresh(memo) /\ ContentFresh(memo)
      BY <1>1, InvFacts, Zenon
    <2> QED BY <2>1, <2>2, ZenonT(30) DEF AddressFresh, ContentFresh, SeesAddressed, SeesNoted
  <1> QED BY <1>1, Invariance, PTL

(***************************************************************************)
(* Handles onto staged objects (StagedHandles).                            *)
(*                                                                         *)
(* A handle is told apart from a later object at its path by the           *)
(* generation alone.  The invariant says what the generation stands for:   *)
(* the object of a handle that no commit overtook is in the file only in a *)
(* later generation than the handle's, and the object it replaces is there *)
(* in a later one only if a failed commit dropped what was staged.  Until  *)
(* then the deletion it was staged with is still staged.                   *)
(***************************************************************************)
HandleOK(x, f, d, c, g, n) ==
    /\ x.pc = "none" => x = Staging!NoHandle
    /\ x.object \in 0 .. n /\ x.replaces \in 0 .. n /\ x.birth \in 0 .. g
    /\ x.pc # "none" =>
          /\ x.object # 0
          /\ c # 0 => c # x.replaces
          /\ ~x.dropped /\ f # 0 /\ f = x.replaces => d
    /\ ~x.late =>
          /\ x.pc = "making" => f # x.object
          /\ x.pc \in {"made", "resolving"} /\ f = x.object => x.birth < g
    /\ ~x.dropped /\ f # 0 /\ f = x.replaces =>
          ~x.memo /\ x.pc # "resolving" /\ (x.pc = "made" => x.birth = g)
    /\ ~x.dropped /\ x.answer # 0 => x.answer # x.replaces

HandleStates ==
    [pc : {"none", "making", "made", "resolving"}, object : Nat, replaces : Nat, birth : Nat,
     memo : BOOLEAN, answer : Nat, late : BOOLEAN, dropped : BOOLEAN]

StagedInv ==
    /\ objects \in Nat /\ generation \in Nat
    /\ file \in 0 .. objects /\ creation \in 0 .. objects
    /\ creation # 0 => creation # file
    /\ handle \in [Handles -> HandleStates]
    /\ \A h \in Handles : HandleOK(handle[h], file, deletion, creation, generation, objects)

LEMMA StagedInit == Staging!Init => StagedInv
  <1> SUFFICES ASSUME Staging!Init PROVE StagedInv
    BY Zenon
  <1>1. /\ file \in {0, 1} /\ creation = 0 /\ generation = 0 /\ objects = 1
        /\ handle = [h \in Handles |-> Staging!NoHandle]
    BY Zenon DEF Staging!Init
  <1>2. Staging!NoHandle \in HandleStates
    BY Zenon DEF Staging!NoHandle, HandleStates
  <1>3. HandleOK(Staging!NoHandle, file, deletion, creation, generation, objects)
    BY <1>1, SMTT(30) DEF Staging!NoHandle, HandleOK
  <1> QED BY <1>1, <1>2, <1>3, SMTT(30) DEF StagedInv

\* The handle's state is as it was; the objects, the deletion or the creation have gone on.
LEMMA HandleStays ==
    ASSUME NEW x, NEW f \in Nat, NEW d, NEW c \in Nat, NEW g \in Nat, NEW n \in Nat,
           NEW e, NEW b \in Nat, NEW m \in Nat,
           HandleOK(x, f, d, c, g, n), d => e, n <= m, b = 0 \/ b = c \/ b > n
    PROVE  HandleOK(x, f, e, b, g, m)
  BY DEF HandleOK

LEMMA MadeHandle ==
    ASSUME NEW f \in Nat, NEW d, NEW c \in Nat, NEW g \in Nat, NEW n \in Nat, f <= n, c <= n,
           c # 0, c # f, d \/ f = 0,
           NEW x, x = [Staging!NoHandle EXCEPT !.pc = "making", !.object = c, !.replaces = f]
    PROVE  x \in HandleStates /\ HandleOK(x, f, d, c, g, n)
  <1>1. /\ x.pc = "making" /\ x.object = c /\ x.replaces = f /\ x.birth = 0 /\ x.memo = FALSE /\ x.answer = 0
        /\ x.late = FALSE /\ x.dropped = FALSE /\ x \in HandleStates
    BY Zenon DEF Staging!NoHandle, HandleStates
  <1> QED BY <1>1 DEF HandleOK

\* Create and Open: a handle is made onto the object that owns the path.
LEMMA MakingKeeps ==
    ASSUME StagedInv, NEW h \in Handles, NEW b \in Nat, NEW n \in Nat, objects <= n, b <= n, b # 0, b # file,
           b = creation \/ b > objects, deletion \/ file = 0,
           Staging!Making(h, b), creation' = b, objects' = n, UNCHANGED <<file, deletion, generation>>
    PROVE  StagedInv'
  <1> DEFINE x == [Staging!NoHandle EXCEPT !.pc = "making", !.object = b, !.replaces = file]
  <1>1. handle' = [handle EXCEPT ![h] = x]
    BY Zenon DEF Staging!Making
  <1>2. /\ objects \in Nat /\ file \in Nat /\ creation \in Nat /\ generation \in Nat
        /\ file <= objects /\ handle \in [Handles -> HandleStates]
    BY SMTT(30) DEF StagedInv
  <1>3. x \in HandleStates /\ HandleOK(x, file, deletion, b, generation, n)
    <2>1. file <= n
      BY <1>2, SMTT(30)
    <2> QED BY <2>1, <1>2, MadeHandle, Zenon
  <1> HIDE DEF x
  <1>4. handle' \in [Handles -> HandleStates] /\ \A k \in Handles : handle'[k] = IF k = h THEN x ELSE handle[k]
    BY <1>1, <1>2, <1>3, Zenon
  <1>5. \A k \in Handles : HandleOK(handle[k], file, deletion, b, generation, n)
    <2> SUFFICES ASSUME NEW k \in Handles PROVE HandleOK(handle[k], file, deletion, b, generation, n)
      BY Zenon
    <2>1. HandleOK(handle[k], file, deletion, creation, generation, objects)
      BY Zenon DEF StagedInv
    <2> QED BY <2>1, <1>2, HandleStays, SMTT(30)
  <1>6. \A k \in Handles : HandleOK(handle'[k], file', deletion', creation', generation', objects')
    BY <1>3, <1>4, <1>5, Zenon
  <1>7. objects' \in Nat /\ generation' \in Nat /\ file' \in 0 .. objects' /\ creation' \in 0 .. objects'
    BY <1>2, SMTT(30)
  <1> QED BY <1>4, <1>6, <1>7, Zenon DEF StagedInv

LEMMA CreateKeeps ==
    ASSUME StagedInv, NEW h \in Handles, Staging!Create(h)
    PROVE  StagedInv'
  <1>1. /\ objects' = objects + 1 /\ creation' = objects + 1 /\ Staging!Making(h, objects + 1)
        /\ deletion \/ file = 0
        /\ UNCHANGED <<file, deletion, generation>>
    BY Zenon DEF Staging!Create, Staging!MayCreate
  <1>2. /\ objects + 1 \in Nat /\ objects <= objects + 1 /\ objects + 1 <= objects + 1 /\ objects + 1 # 0
        /\ objects + 1 # file /\ objects + 1 > objects
    BY SMTT(30) DEF StagedInv
  <1> QED BY <1>1, <1>2, MakingKeeps, Zenon

LEMMA OpenKeeps ==
    ASSUME StagedInv, NEW h \in Handles, Staging!Open(h)
    PROVE  StagedInv'
  <1>1. /\ creation # 0 /\ (deletion \/ file = 0) /\ Staging!Making(h, creation)
        /\ UNCHANGED <<file, deletion, creation, generation, objects>>
    BY Zenon DEF Staging!Open, Staging!Visible, Staging!staging
  <1>2. creation \in Nat /\ objects \in Nat /\ objects <= objects /\ creation <= objects /\ creation # file
    BY <1>1 DEF StagedInv
  <1> QED BY <1>1, <1>2, MakingKeeps, Zenon

\* One handle moves on, and nothing else changes.
LEMMA HandleMoves ==
    ASSUME StagedInv, NEW h \in Handles, NEW x \in HandleStates,
           handle' = [handle EXCEPT ![h] = x], UNCHANGED Staging!staging,
           HandleOK(x, file, deletion, creation, generation, objects)
    PROVE  StagedInv'
  <1>1. handle' \in [Handles -> HandleStates] /\ \A k \in Handles : handle'[k] = IF k = h THEN x ELSE handle[k]
    BY Zenon DEF StagedInv
  <1>2. UNCHANGED <<file, deletion, creation, generation, objects>>
    BY Zenon DEF Staging!staging
  <1>3. \A k \in Handles : HandleOK(handle'[k], file', deletion', creation', generation', objects')
    BY <1>1, <1>2, Zenon DEF StagedInv
  <1> QED BY <1>1, <1>2, <1>3, Zenon DEF StagedInv

LEMMA PendingKeeps ==
    ASSUME StagedInv, NEW h \in Handles, Staging!Pending(h)
    PROVE  StagedInv'
  <1> DEFINE x == handle[h]
             y == [x EXCEPT !.pc = "made", !.birth = generation]
  <1>1. /\ x.pc = "making" /\ handle' = [handle EXCEPT ![h] = y] /\ UNCHANGED Staging!staging
    BY Zenon DEF Staging!Pending, StagedInv
  <1>2. x \in HandleStates /\ HandleOK(x, file, deletion, creation, generation, objects) /\ generation \in Nat
    BY Zenon DEF StagedInv
  <1> HIDE DEF x
  <1>3. /\ y \in HandleStates /\ y.pc = "made" /\ y.birth = generation /\ y.object = x.object
        /\ y.replaces = x.replaces /\ y.memo = x.memo /\ y.answer = x.answer /\ y.late = x.late
        /\ y.dropped = x.dropped
    BY <1>2, Zenon DEF HandleStates
  <1> HIDE DEF y
  <1>4. HandleOK(y, file, deletion, creation, generation, objects)
    BY <1>1, <1>2, <1>3, SMTT(30) DEF HandleOK
  <1> QED BY <1>1, <1>3, <1>4, HandleMoves, Zenon

LEMMA StandKeeps ==
    ASSUME StagedInv, NEW h \in Handles, Staging!Stand(h)
    PROVE  StagedInv'
  <1> DEFINE x == handle[h]
             y == [x EXCEPT !.pc = "resolving"]
  <1>1. /\ x.pc = "made" /\ handle' = [handle EXCEPT ![h] = y] /\ UNCHANGED Staging!staging
    BY Zenon DEF Staging!Stand, StagedInv
  <1>2. x.memo \/ x.birth # generation
    BY Zenon DEF Staging!Stand, Staging!Standing
  <1>3. x \in HandleStates /\ HandleOK(x, file, deletion, creation, generation, objects)
    BY Zenon DEF StagedInv
  <1> HIDE DEF x
  <1>4. /\ y \in HandleStates /\ y.pc = "resolving" /\ y.birth = x.birth /\ y.object = x.object
        /\ y.replaces = x.replaces /\ y.memo = x.memo /\ y.answer = x.answer /\ y.late = x.late
        /\ y.dropped = x.dropped
    BY <1>3, Zenon DEF HandleStates
  <1> HIDE DEF y
  <1>5. HandleOK(y, file, deletion, creation, generation, objects)
    BY <1>1, <1>2, <1>3, <1>4, Zenon DEF HandleOK
  <1> QED BY <1>1, <1>4, <1>5, HandleMoves, Zenon

LEMMA ResolveKeeps ==
    ASSUME StagedInv, NEW h \in Handles, Staging!Resolve(h)
    PROVE  StagedInv'
  <1> DEFINE x == handle[h]
             y == [x EXCEPT !.pc = "made", !.memo = x.memo \/ file # 0, !.answer = file]
  <1>1. /\ x.pc = "resolving" /\ handle' = [handle EXCEPT ![h] = y] /\ UNCHANGED Staging!staging
    BY Zenon DEF Staging!Resolve, StagedInv
  <1>2. /\ x \in HandleStates /\ HandleOK(x, file, deletion, creation, generation, objects)
        /\ file \in Nat
    BY SMTT(30) DEF StagedInv
  <1> HIDE DEF x
  <1>3. /\ y \in HandleStates /\ y.pc = "made" /\ y.birth = x.birth /\ y.object = x.object
        /\ y.replaces = x.replaces /\ y.answer = file /\ y.late = x.late /\ y.dropped = x.dropped
        /\ y.memo = (x.memo \/ file # 0)
    BY <1>2, Zenon DEF HandleStates
  <1> HIDE DEF y
  <1>4. ~(~x.dropped /\ file # 0 /\ file = x.replaces)
    BY <1>1, <1>2, Zenon DEF HandleOK
  <1>5. HandleOK(y, file, deletion, creation, generation, objects)
    BY <1>1, <1>2, <1>3, <1>4, Zenon DEF HandleOK
  <1> QED BY <1>1, <1>3, <1>5, HandleMoves, Zenon

LEMMA DropKeeps ==
    ASSUME StagedInv, NEW h \in Handles, Staging!Drop(h)
    PROVE  StagedInv'
  <1>1. handle' = [handle EXCEPT ![h] = Staging!NoHandle] /\ UNCHANGED Staging!staging
    BY Zenon DEF Staging!Drop
  <1>2. Staging!NoHandle \in HandleStates
    BY ZenonT(30) DEF Staging!NoHandle, HandleStates
  <1>3. HandleOK(Staging!NoHandle, file, deletion, creation, generation, objects)
    BY SMTT(30) DEF Staging!NoHandle, HandleOK, StagedInv
  <1> QED BY <1>1, <1>2, <1>3, HandleMoves, Zenon

LEMMA DeleteKeeps ==
    ASSUME StagedInv, Staging!Delete
    PROVE  StagedInv'
  <1>1. creation' = 0 /\ (deletion => deletion') /\ UNCHANGED <<file, generation, objects, handle>>
    BY Zenon DEF Staging!Delete
  <1>2. /\ objects \in Nat /\ file \in Nat /\ creation \in Nat /\ generation \in Nat /\ deletion' = deletion'
        /\ objects <= objects /\ 0 \in 0 .. objects /\ 0 \in Nat
    BY DEF StagedInv
  <1>3. \A k \in Handles : HandleOK(handle[k], file, deletion', 0, generation, objects)
    BY <1>1, <1>2, HandleStays, Zenon DEF StagedInv
  <1> QED BY <1>1, <1>2, <1>3, Zenon DEF StagedInv

\* A commit that takes effect leaves e in the file.
Leaves(e, f, d, c) == e = IF c # 0 THEN c ELSE IF d THEN 0 ELSE f

\* A commit that takes effect: every handle made onto what was staged lies in an earlier generation.
LEMMA HandleOvertaken ==
    ASSUME NEW x \in HandleStates, NEW f \in Nat, NEW d, NEW c \in Nat, NEW g \in Nat, NEW n \in Nat,
           HandleOK(x, f, d, c, g, n), NEW e \in Nat, Leaves(e, f, d, c),
           NEW y, y = [x EXCEPT !.late = x.late \/ x.pc = "making"]
    PROVE  y \in HandleStates /\ HandleOK(y, e, FALSE, 0, g + 1, n)
  <1>1. /\ y \in HandleStates /\ y.pc = x.pc /\ y.birth = x.birth /\ y.object = x.object
        /\ y.replaces = x.replaces /\ y.memo = x.memo /\ y.answer = x.answer /\ y.dropped = x.dropped
        /\ y.late = (x.late \/ x.pc = "making")
    BY Zenon DEF HandleStates
  <1>2. x.pc = "none" => y = Staging!NoHandle
    <2> SUFFICES ASSUME x.pc = "none" PROVE y = Staging!NoHandle
      BY Zenon
    <2>1. x = Staging!NoHandle
      BY Zenon DEF HandleOK
    <2> QED BY <2>1, Zenon DEF Staging!NoHandle
  <1>3. x.pc # "none" /\ ~x.dropped /\ e # 0 => e # x.replaces
    BY Zenon DEF HandleOK, Leaves
  <1>4. x.pc = "none" => x.replaces = 0
    BY DEF HandleOK, Staging!NoHandle
  <1>5. y.birth \in 0 .. (g + 1) /\ y.birth < g + 1
    BY <1>1 DEF HandleOK
  <1>6. y.object \in 0 .. n /\ y.replaces \in 0 .. n /\ (y.pc # "none" => y.object # 0)
    BY <1>1, Zenon DEF HandleOK
  <1>7. ~y.late => y.pc # "making"
    BY <1>1, Zenon
  <1>8. ~y.dropped /\ y.answer # 0 => y.answer # y.replaces
    BY <1>1, Zenon DEF HandleOK
  <1>9. ~(~y.dropped /\ e # 0 /\ e = y.replaces)
    BY <1>1, <1>3, <1>4, Zenon
  <1> QED BY <1>1, <1>2, <1>5, <1>6, <1>7, <1>8, <1>9, Zenon DEF HandleOK

\* What was staged is dropped: so is every handle made onto it.
LEMMA HandleLost ==
    ASSUME NEW x \in HandleStates, NEW f \in Nat, NEW d, NEW c \in Nat, NEW g \in Nat, NEW n \in Nat,
           HandleOK(x, f, d, c, g, n), NEW k \in Nat, g <= k,
           NEW y, y = [x EXCEPT !.dropped = x.dropped \/ x.pc # "none"]
    PROVE  y \in HandleStates /\ HandleOK(y, f, FALSE, 0, k, n)
  <1>1. /\ y \in HandleStates /\ y.pc = x.pc /\ y.birth = x.birth /\ y.object = x.object
        /\ y.replaces = x.replaces /\ y.memo = x.memo /\ y.answer = x.answer /\ y.late = x.late
        /\ y.dropped = (x.dropped \/ x.pc # "none")
    BY Zenon DEF HandleStates
  <1>2. x.pc = "none" => x = Staging!NoHandle /\ y = Staging!NoHandle
    <2> SUFFICES ASSUME x.pc = "none" PROVE x = Staging!NoHandle /\ y = Staging!NoHandle
      BY Zenon
    <2>1. x = Staging!NoHandle
      BY Zenon DEF HandleOK
    <2> QED BY <2>1, Zenon DEF Staging!NoHandle
  <1>3. x.pc = "none" => x.replaces = 0 /\ x.answer = 0
    BY <1>2, Zenon DEF Staging!NoHandle
  <1>4. y.birth \in 0 .. k /\ (~y.late /\ y.pc \in {"made", "resolving"} /\ f = y.object => y.birth < k)
    BY <1>1 DEF HandleOK
  <1>5. /\ y.object \in 0 .. n /\ y.replaces \in 0 .. n /\ (y.pc # "none" => y.object # 0)
        /\ ~y.late => (y.pc = "making" => f # y.object)
    BY <1>1, Zenon DEF HandleOK
  <1>6. ~y.dropped => y.pc = "none"
    BY <1>1, Zenon
  <1> QED BY <1>1, <1>2, <1>3, <1>4, <1>5, <1>6, Zenon DEF HandleOK

LEMMA StagedFacts ==
    ASSUME StagedInv
    PROVE  /\ objects \in Nat /\ file \in Nat /\ file <= objects /\ creation \in Nat /\ creation <= objects
           /\ generation \in Nat /\ handle \in [Handles -> HandleStates]
           /\ \A h \in Handles : HandleOK(handle[h], file, deletion, creation, generation, objects)
  BY DEF StagedInv

\* The commit is published.
LEMMA AppliedKeeps ==
    ASSUME StagedInv, generation' = generation + 1, file' = Staging!Applied, Staging!Consumed,
           handle' = Staging!Overtaken, UNCHANGED objects
    PROVE  StagedInv'
  <1>1. deletion' = FALSE /\ creation' = 0
    BY Zenon DEF Staging!Consumed
  <1>2. file' = (IF creation # 0 THEN creation ELSE IF deletion THEN 0 ELSE file)
    BY Zenon DEF Staging!Applied
  <1>3. file' \in Nat /\ file' <= objects
    BY <1>2, StagedFacts, Zenon
  <1>4. ASSUME NEW h \in Handles
        PROVE  handle'[h] \in HandleStates /\ HandleOK(handle'[h], file', FALSE, 0, generation + 1, objects)
    <2>1. handle'[h] = [handle[h] EXCEPT !.late = handle[h].late \/ handle[h].pc = "making"]
      BY Zenon DEF Staging!Overtaken
    <2>2. handle[h] \in HandleStates /\ HandleOK(handle[h], file, deletion, creation, generation, objects)
      BY StagedFacts, Zenon
    <2>3. file \in Nat /\ creation \in Nat /\ generation \in Nat /\ objects \in Nat
      BY StagedFacts, Zenon
    <2>4. Leaves(file', file, deletion, creation)
      BY <1>2, Zenon DEF Leaves
    <2> QED BY <2>1, <2>2, <2>3, <2>4, <1>3, HandleOvertaken, Zenon
  <1>5. handle' = [h \in Handles |-> handle'[h]]
    BY Zenon DEF Staging!Overtaken
  <1>6. handle' \in [Handles -> HandleStates]
    BY <1>4, <1>5, Zenon
  <1>7. objects' \in Nat /\ generation' \in Nat /\ file' \in 0 .. objects' /\ creation' \in 0 .. objects'
    BY <1>1, <1>3, StagedFacts, SMTT(30)
  <1>8. \A h \in Handles : HandleOK(handle'[h], file', deletion', creation', generation', objects')
    BY <1>1, <1>4, Zenon
  <1> QED BY <1>1, <1>6, <1>7, <1>8, Zenon DEF StagedInv

\* The commit fails and leaves the file.
LEMMA LostKeeps ==
    ASSUME StagedInv, generation' \in {generation, generation + 1}, Staging!Consumed,
           handle' = Staging!Lost, UNCHANGED <<file, objects>>
    PROVE  StagedInv'
  <1>1. deletion' = FALSE /\ creation' = 0
    BY Zenon DEF Staging!Consumed
  <1>2. generation' \in Nat /\ generation <= generation'
    BY StagedFacts
  <1>3. ASSUME NEW h \in Handles
        PROVE  handle'[h] \in HandleStates /\ HandleOK(handle'[h], file, FALSE, 0, generation', objects)
    <2>1. handle'[h] = [handle[h] EXCEPT !.dropped = handle[h].dropped \/ handle[h].pc # "none"]
      BY Zenon DEF Staging!Lost
    <2>2. handle[h] \in HandleStates /\ HandleOK(handle[h], file, deletion, creation, generation, objects)
      BY StagedFacts, Zenon
    <2> QED BY <2>1, <2>2, <1>2, StagedFacts, HandleLost, Zenon
  <1>4. handle' = [h \in Handles |-> handle'[h]]
    BY Zenon DEF Staging!Lost
  <1>5. handle' \in [Handles -> HandleStates]
    BY <1>3, <1>4, Zenon
  <1>6. objects' \in Nat /\ file' \in 0 .. objects' /\ creation' \in 0 .. objects'
    BY <1>1, StagedFacts, SMTT(30)
  <1>7. \A h \in Handles : HandleOK(handle'[h], file', deletion', creation', generation', objects')
    BY <1>1, <1>3, Zenon
  <1> QED BY <1>1, <1>2, <1>5, <1>6, <1>7, Zenon DEF StagedInv

LEMMA StagingKeeps == StagedInv /\ Staging!Next => StagedInv'
  <1> SUFFICES ASSUME StagedInv, Staging!Next PROVE StagedInv'
    BY Zenon
  <1>1. ASSUME NEW h \in Handles, Staging!Create(h) \/ Staging!Open(h) \/ Staging!Pending(h)
                                  \/ Staging!Stand(h) \/ Staging!Resolve(h) \/ Staging!Drop(h)
        PROVE  StagedInv'
    BY <1>1, CreateKeeps, OpenKeeps, PendingKeeps, StandKeeps, ResolveKeeps, DropKeeps, Zenon
  <1>2. CASE Staging!Delete
    BY <1>2, DeleteKeeps, Zenon
  <1>3. CASE Staging!Commit
    BY <1>3, AppliedKeeps, Zenon DEF Staging!Commit
  <1>4. CASE Staging!CommitFails
    BY <1>4, LostKeeps, Zenon DEF Staging!CommitFails
  <1>5. CASE Staging!CommitUncertain
    BY <1>5, AppliedKeeps, LostKeeps, Zenon DEF Staging!CommitUncertain
  <1> QED BY <1>1, <1>2, <1>3, <1>4, <1>5, Zenon DEF Staging!Next

LEMMA StagedInvariance == KindsSpec => []StagedInv
  <1>1. KindsInit => StagedInv
    BY StagedInit, Zenon DEF KindsInit
  <1>2. StagedInv /\ [KindsNext]_<<kind, vars, staging>> => StagedInv'
    <2> SUFFICES ASSUME StagedInv, [KindsNext]_<<kind, vars, staging>> PROVE StagedInv'
      BY Zenon
    <2>1. Staging!Next \/ UNCHANGED staging
      BY Zenon DEF KindsNext
    <2>2. CASE UNCHANGED staging
      <3>1. UNCHANGED <<file, deletion, creation, generation, objects, handle>>
        BY <2>2, Zenon DEF staging
      <3> QED BY <3>1, Zenon DEF StagedInv
    <2> QED BY <2>1, <2>2, StagingKeeps, Zenon
  <1> QED BY <1>1, <1>2, PTL DEF KindsSpec

(***************************************************************************)
(* A handle onto a staged dataset is not told that the staging was         *)
(* withdrawn when its object is in the file, for any number of handles and *)
(* commits of any outcome (staged_standing, staged_generation); a handle   *)
(* that a commit overtook before Dataset::pending dated it is not covered. *)
(***************************************************************************)
THEOREM PublishedHandlesAnswer == KindsSpec => []PublishedHandleAnswers
  <1>1. ASSUME StagedInv, NEW h \in Handles, handle[h].pc = "made", ~handle[h].late, file = handle[h].object
        PROVE  Staging!Standing(h) # "Withdrawn"
    <2>1. handle[h].birth < generation /\ handle[h].birth \in Nat /\ generation \in Nat
      BY <1>1, StagedFacts, SMTT(30) DEF HandleOK
    <2>2. handle[h].birth # generation
      BY <2>1, SMTT(30)
    <2> QED BY <2>2, Zenon DEF Staging!Standing
  <1>2. StagedInv => PublishedHandleAnswers
    BY <1>1, Zenon DEF PublishedHandleAnswers, Staging!PublishedHandleAnswers
  <1> QED BY <1>2, StagedInvariance, PTL

(***************************************************************************)
(* A handle onto a staged dataset never answers for the object that the    *)
(* dataset replaces (locate_staged), for any number of handles, objects    *)
(* and commits, unless a failed commit dropped what was staged.            *)
(***************************************************************************)
THEOREM ReplacedObjectsStayHidden == KindsSpec => []ReplacedObjectStaysHidden
  <1>1. StagedInv => ReplacedObjectStaysHidden
    BY Zenon DEF StagedInv, HandleOK, ReplacedObjectStaysHidden, Staging!ReplacedObjectStaysHidden
  <1> QED BY <1>1, StagedInvariance, PTL
=============================================================================
