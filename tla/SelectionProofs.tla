-------------------------- MODULE SelectionProofs --------------------------
(***************************************************************************)
(* Whatever the selector's adapters, the visitors and the clients' wishes: *)
(* until a visitor has been written to, every byte it sent can still be    *)
(* read again in order; one that does not speak SOCKS5 reaches the default *)
(* destination with its bytes unchanged; none is routed by SOCKS5 without  *)
(* the password, where one is set; and one that is routed by SOCKS5 leaves *)
(* exactly what it sent after its dialogue to the destination.             *)
(***************************************************************************)
EXTENDS Selection, SequenceTheorems, TLAPS

\* What makes the two properties inductive: an adapter starts with nothing marked and at most
\* the two bytes of a head given back, and has read all of them when it returns.
Buffered(opt) == opt # None => opt = Some(opt[1]) /\ opt[1] \in Seq(Nat)

ReadAhead ==
  /\ told \in Seq(Answers)
  /\ (\/ pc = "select"
      \/ pc = "socks" /\ stage = "head"
      \/ pc = "routed" /\ via = "direct") => told = <<>>
  /\ (told = <<>> /\ pc \in Running) =>
       /\ wire \in Seq(Nat) /\ Buffered(marked) /\ Buffered(backed)
       /\ pc = "select" => Data(marked) = <<>> /\ Len(Data(backed)) <= 2
       /\ pc = "routed" => Data(marked) = <<>>
       /\ pc = "socks" =>
            /\ marked # None
            /\ \/ /\ stage = "head" /\ need = 2
                  /\ got = Data(marked) /\ Len(got) + Len(Data(backed)) <= 2
               \/ stage = "methods" /\ need \in Nat /\ got \in Seq(Nat) /\ Data(backed) = <<>>

IInv == ReadAhead /\ NothingLost /\ PlainUnchanged

-----------------------------------------------------------------------------
(* Options and buffers *)

\* An Option holds at most one buffer, and Data is its bytes.
LEMMA OptionFacts ==
  /\ Data(None) = <<>> /\ Buffered(None)
  /\ \A buf : Some(buf) # None /\ Some(buf)[1] = buf /\ Data(Some(buf)) = buf
  /\ \A buf \in Seq(Nat) : Buffered(Some(buf))
<1>1. Data(None) = <<>> /\ Buffered(None)
  BY DEF Data, None, Buffered
<1>2. ASSUME NEW buf PROVE Some(buf) # None /\ Some(buf)[1] = buf /\ Data(Some(buf)) = buf
  BY DEF Data, None, Some
<1>3. ASSUME NEW buf \in Seq(Nat) PROVE Buffered(Some(buf))
  BY <1>2 DEF Buffered
<1> QED BY <1>1, <1>2, <1>3

\* What a well-formed Option holds is a sequence of bytes.
LEMMA DataType ==
  ASSUME NEW opt, Buffered(opt)
  PROVE  Data(opt) \in Seq(Nat) /\ (opt # None => opt = Some(Data(opt)))
BY EmptySeq DEF Data, Buffered

\* Concatenation of bytes does not depend on the brackets.
LEMMA Associative ==
  ASSUME NEW s \in Seq(Nat), NEW t \in Seq(Nat), NEW u \in Seq(Nat)
  PROVE  (s \o t) \o u = s \o (t \o u)
<1>1. s \o t \in Seq(Nat) /\ t \o u \in Seq(Nat)
  BY ConcatProperties
<1>2. (s \o t) \o u \in Seq(Nat) /\ s \o (t \o u) \in Seq(Nat)
  BY <1>1, ConcatProperties
<1> QED BY <1>1, <1>2, SMT

\* A sequence is its first n elements followed by the rest.
LEMMA SplitAt ==
  ASSUME NEW s \in Seq(Nat), NEW n \in Nat, n <= Len(s)
  PROVE  /\ SubSeq(s, 1, n) \in Seq(Nat) /\ Len(SubSeq(s, 1, n)) = n
         /\ SubSeq(s, n + 1, Len(s)) \in Seq(Nat)
         /\ Len(SubSeq(s, n + 1, Len(s))) = Len(s) - n
         /\ SubSeq(s, 1, n) \o SubSeq(s, n + 1, Len(s)) = s
<1>1. Len(s) \in Nat /\ \A i \in 1 .. Len(s) : s[i] \in Nat
  BY LenProperties, ElementOfSeq
<1>2. SubSeq(s, 1, n) \in Seq(Nat) /\ Len(SubSeq(s, 1, n)) = n
  <2>1. \A i \in 1 .. n : s[i] \in Nat
    BY <1>1
  <2> QED BY <2>1, SubSeqProperties
<1>3. SubSeq(s, n + 1, Len(s)) \in Seq(Nat) /\ Len(SubSeq(s, n + 1, Len(s))) = Len(s) - n
  <2>1. \A i \in n + 1 .. Len(s) : s[i] \in Nat
    BY <1>1
  <2> QED BY <1>1, <2>1, SubSeqProperties
<1>4. SubSeq(s, 1, n) \o SubSeq(s, n + 1, Len(s)) = SubSeq(s, 1, Len(s))
  <2>1. 1 \in 1 .. Len(s) + 1 /\ n \in 1 - 1 .. Len(s) /\ Len(s) \in n .. Len(s)
    BY <1>1
  <2> QED BY <2>1, ConcatAdjacentSubSeq, Zenon
<1> QED BY <1>2, <1>3, <1>4, SubSeqFull

\* What a visitor sends is a finite sequence.
LEMMA ContentType ==
  ASSUME hello \in Hellos, config \in Configs
  PROVE  Content \in Seq(Nat)
<1> DEFINE h == hello
<1>1. /\ h.offers \in Seq(Nat) /\ h.pass \in Nat /\ h.cmd \in Nat
      /\ h.atype \in Nat /\ h.name \in Nat /\ h.data \in Nat
  BY HellosAssumption
<1>2. \A n \in Nat : Filler(n) \in Seq(Nat)
  BY DEF Filler
<1>3. Address(h) \in Seq(Nat)
  <2>0. h.name + 2 \in Nat
    BY <1>1
  <2>1. Filler(6) \in Seq(Nat) /\ Filler(18) \in Seq(Nat) /\ Filler(h.name + 2) \in Seq(Nat)
    <3> HIDE DEF h
    <3> QED BY <1>2, <2>0
  <2>2. <<h.name>> \in Seq(Nat)
    BY <1>1
  <2>3. <<h.name>> \o Filler(h.name + 2) \in Seq(Nat)
    BY <2>1, <2>2, ConcatProperties
  <2>4. CASE h.atype = 3
    BY <2>3, <2>4 DEF Address
  <2>5. CASE h.atype = 1
    BY <2>1, <2>5 DEF Address, AddressLen
  <2>6. CASE h.atype = 4
    BY <2>1, <2>6 DEF Address, AddressLen
  <2>7. CASE h.atype \notin {1, 3, 4}
    BY <2>7, EmptySeq DEF Address
  <2> QED BY <2>4, <2>5, <2>6, <2>7
<1>4. Credentials(h) \in Seq(Nat)
  <2>1. <<1, 1, 1, h.pass>> \in Seq(Nat)
    BY <1>1
  <2>2. Filler(h.pass) \in Seq(Nat)
    <3> HIDE DEF h
    <3> QED BY <1>1, <1>2
  <2> QED BY <2>1, <2>2, ConcatProperties DEF Credentials
<1>5. Dialogue(h, config) \in Seq(Nat)
  <2> DEFINE greeting == <<5, Len(h.offers)>>
             credentials == IF config.auth THEN Credentials(h) ELSE <<>>
             request == <<5, h.cmd, 0, h.atype>>
  <2>1. greeting \in Seq(Nat) /\ request \in Seq(Nat)
    BY <1>1, LenProperties
  <2>2. credentials \in Seq(Nat)
    BY <1>4, EmptySeq
  <2>3. greeting \o h.offers \in Seq(Nat)
    BY <1>1, <2>1, ConcatProperties
  <2> HIDE DEF greeting, credentials, request
  <2>4. (greeting \o h.offers) \o credentials \in Seq(Nat)
    BY <2>2, <2>3, ConcatProperties
  <2>5. ((greeting \o h.offers) \o credentials) \o request \in Seq(Nat)
    BY <2>1, <2>4, ConcatProperties
  <2>6. (((greeting \o h.offers) \o credentials) \o request) \o Address(h) \in Seq(Nat)
    BY <1>3, <2>5, ConcatProperties
  <2>7. CASE ~h.socks
    BY <2>7, EmptySeq DEF Dialogue
  <2>8. CASE h.socks
    BY <2>6, <2>8 DEF Dialogue, greeting, credentials, request
  <2> QED BY <2>7, <2>8
<1>6. Filler(h.data) \in Seq(Nat)
  BY <1>1, <1>2
<1> QED BY <1>5, <1>6, ConcatProperties DEF Content

\* The bytes of a visitor are numbered from one.
LEMMA WholeType ==
  ASSUME hello \in Hellos, config \in Configs
  PROVE  Whole \in Seq(Nat)
<1>1. Len(Content) \in Nat
  BY ContentType, LenProperties
<1> QED BY <1>1 DEF Whole

\* A read takes bytes from the front and remembers them: what can still be
\* read again stays the same.
LEMMA ReadKeeps ==
  ASSUME wire \in Seq(Nat), Buffered(marked), Buffered(backed),
         NEW room \in Nat, NEW n \in ReadSizes(room), Read(n)
  PROVE  /\ wire' \in Seq(Nat) /\ Buffered(marked') /\ Buffered(backed')
         /\ n \in Nat /\ ReadBytes(n) \in Seq(Nat) /\ Len(ReadBytes(n)) = n
         /\ Len(Data(backed')) = IF backed # None THEN Len(Data(backed)) - n ELSE 0
         /\ marked # None =>
              /\ marked' # None
              /\ Len(Data(marked')) = Len(Data(marked)) + n
              /\ (marked' = Some(Data(marked) \o ReadBytes(n)))
              /\ Data(marked') \o Data(backed') \o wire' = Data(marked) \o Data(backed) \o wire
<1> DEFINE source == IF backed # None THEN Data(backed) ELSE wire
           bytes == SubSeq(source, 1, n)
           rest == SubSeq(source, n + 1, Len(source))
<1>1. /\ Data(marked) \in Seq(Nat) /\ Data(backed) \in Seq(Nat) /\ source \in Seq(Nat)
      /\ Len(source) \in Nat /\ Len(Data(marked)) \in Nat
  BY DataType, LenProperties
<1>2. n \in Nat /\ n <= Len(source)
  <2>1. CASE backed # None
    BY <1>1, <2>1 DEF ReadSizes
  <2>2. CASE backed = None
    BY <1>1, <2>2 DEF ReadSizes
  <2> QED BY <2>1, <2>2
<1>3. /\ bytes \in Seq(Nat) /\ Len(bytes) = n /\ rest \in Seq(Nat)
      /\ Len(rest) = Len(source) - n /\ bytes \o rest = source
  <2> HIDE DEF source
  <2> QED BY <1>1, <1>2, SplitAt
<1>4. ReadBytes(n) = bytes
  BY DEF ReadBytes
<1>5. /\ wire' \in Seq(Nat) /\ Buffered(backed') /\ Data(backed') \in Seq(Nat)
      /\ Len(Data(backed')) = IF backed # None THEN Len(Data(backed)) - n ELSE 0
      /\ bytes \o (Data(backed') \o wire') = Data(backed) \o wire
  <2>1. CASE backed # None
    <3>1. wire' = wire /\ backed' = (IF rest = <<>> THEN None ELSE Some(rest))
      BY <2>1 DEF Read
    <3>2. Data(backed') = rest /\ Buffered(backed')
      <4> HIDE DEF rest
      <4>1. CASE rest = <<>>
        BY <3>1, <4>1, OptionFacts
      <4>2. CASE rest # <<>>
        BY <1>3, <3>1, <4>2, OptionFacts
      <4> QED BY <4>1, <4>2
    <3>3. bytes \o (rest \o wire) = (bytes \o rest) \o wire
      <4> HIDE DEF bytes, rest
      <4> QED BY <1>3, Associative
    <3>4. bytes \o rest = Data(backed) /\ Len(rest) = Len(Data(backed)) - n
      BY <1>3, <2>1
    <3> HIDE DEF bytes, rest, source
    <3> QED BY <1>3, <2>1, <3>1, <3>2, <3>3, <3>4
  <2>2. CASE backed = None
    <3>1. wire' = rest /\ backed' = None
      BY <2>2 DEF Read
    <3>2. Data(backed) = <<>> /\ Data(backed') = <<>> /\ Buffered(backed')
      BY <2>2, <3>1, OptionFacts
    <3>3. bytes \o rest = wire
      BY <1>3, <2>2
    <3> HIDE DEF bytes, rest, source
    <3>4. <<>> \o wire = wire /\ <<>> \o rest = rest
      BY <1>3, ConcatEmptySeq
    <3>5. Len(Data(backed')) = 0 /\ Data(backed') \in Seq(Nat)
      BY <3>2, EmptySeq
    <3>6. Data(backed') \o wire' = rest
      BY <3>1, <3>2, <3>4, Zenon
    <3>7. Data(backed) \o wire = bytes \o rest
      BY <3>2, <3>3, <3>4, Zenon
    <3>8. bytes \o (Data(backed') \o wire') = Data(backed) \o wire
      BY <3>6, <3>7, Zenon
    <3>9. wire' \in Seq(Nat)
      BY <1>3, <3>1
    <3>10. Len(Data(backed')) = IF backed # None THEN Len(Data(backed)) - n ELSE 0
      BY <2>2, <3>5, Zenon
    <3> QED BY <3>2, <3>5, <3>8, <3>9, <3>10, Zenon
  <2> QED BY <2>1, <2>2
<1>6. marked' = IF marked = None THEN None ELSE Some(Data(marked) \o bytes)
  BY <1>4 DEF Read, Data
<1> HIDE DEF bytes, rest, source
<1>7. Data(marked) \o bytes \in Seq(Nat) /\ Len(Data(marked) \o bytes) = Len(Data(marked)) + n
  BY <1>1, <1>3, ConcatProperties
<1>8. Buffered(marked')
  BY <1>6, <1>7, OptionFacts
<1>9. ASSUME marked # None
      PROVE  /\ marked' = Some(Data(marked) \o bytes)
             /\ marked' # None /\ Data(marked') = Data(marked) \o bytes
  BY <1>6, <1>9, OptionFacts
<1>10. (Data(marked) \o bytes) \o Data(backed') \o wire' = Data(marked) \o Data(backed) \o wire
  <2>1. Data(backed') \o wire' \in Seq(Nat)
    BY <1>5, ConcatProperties
  <2>2. ((Data(marked) \o bytes) \o Data(backed')) \o wire'
          = (Data(marked) \o bytes) \o (Data(backed') \o wire')
    BY <1>5, <1>7, Associative
  <2>3. (Data(marked) \o bytes) \o (Data(backed') \o wire')
          = Data(marked) \o (bytes \o (Data(backed') \o wire'))
    <3> DEFINE d == Data(marked)
               t == Data(backed') \o wire'
    <3>1. d \in Seq(Nat) /\ bytes \in Seq(Nat) /\ t \in Seq(Nat)
      BY <1>1, <1>3, <2>1
    <3> HIDE DEF d, t
    <3>2. (d \o bytes) \o t = d \o (bytes \o t)
      BY <3>1, Associative
    <3> QED BY <3>2 DEF d, t
  <2>4. Data(marked) \o (Data(backed) \o wire) = (Data(marked) \o Data(backed)) \o wire
    BY <1>1, Associative
  <2> QED BY <1>5, <2>2, <2>3, <2>4
<1> QED BY <1>2, <1>3, <1>4, <1>5, <1>7, <1>8, <1>9, <1>10

-----------------------------------------------------------------------------
(* Init and the steps *)

\* Nothing is lost before anything was read.
LEMMA InitEstablishes == Init => IInv
<1> SUFFICES ASSUME Init PROVE IInv
  OBVIOUS
<1>1. Whole \in Seq(Nat)
  BY WholeType DEF Init
<1>2. /\ wire = Whole /\ Data(marked) = <<>> /\ Data(backed) = <<>>
      /\ Buffered(marked) /\ Buffered(backed) /\ told = <<>> /\ pc = "select"
  BY OptionFacts, EmptySeq DEF Init, Marked
<1>3. <<>> \o <<>> \o wire = Whole
  BY <1>1, <1>2, ConcatEmptySeq, EmptySeq
<1>4. ReadAhead
  BY <1>1, <1>2, EmptySeq DEF ReadAhead, Running
<1> QED BY <1>2, <1>3, <1>4 DEF IInv, NothingLost, PlainUnchanged

\* What a visitor sends does not change.
LEMMA WholeConstant ==
  ASSUME UNCHANGED <<hello, config>>
  PROVE  Whole' = Whole
BY DEF Whole, Content

\* A visitor's future that has ended leaves nothing to show.
LEMMA EndKeeps ==
  ASSUME IInv, NEW as, as \notin Running, as # "spliced", pc' = as, told' \in Seq(Answers)
  PROVE  IInv'
BY DEF IInv, ReadAhead, NothingLost, PlainUnchanged, Running

\* Steps that tell the visitor something.
LEMMA TellKeeps ==
  ASSUME IInv, NEW m \in Answers, Tell(m), pc' # "select", pc' # "spliced",
         pc' = "routed" => via' = "socks", stage' = "head" => pc' # "socks"
  PROVE  IInv'
<1>1. told' \in Seq(Answers) /\ told' # <<>>
  BY DEF IInv, ReadAhead, Tell
<1> QED BY <1>1 DEF IInv, ReadAhead, NothingLost, PlainUnchanged

\* The steps of the selector.
LEMMA SelectKeeps == IInv /\ Select => IInv'
<1> SUFFICES ASSUME IInv, Select PROVE IInv'
  OBVIOUS
<1>1. /\ pc = "select" /\ told = <<>> /\ wire \in Seq(Nat)
      /\ Buffered(marked) /\ Buffered(backed)
      /\ Data(marked) = <<>> /\ Len(Data(backed)) <= 2
      /\ Data(marked) \o Data(backed) \o wire = Whole
  BY DEF IInv, Select, CallSocks, SkipSocks, Direct, Unknown, ReadAhead, NothingLost, Running
<1>2. /\ UNCHANGED <<hello, config, told>>
      /\ Whole' = Whole
  BY WholeConstant DEF Select, CallSocks, SkipSocks, Direct, Unknown
<1>3. Data(backed) \in Seq(Nat) /\ <<>> \in Seq(Nat) /\ Len(Data(backed)) \in Nat
  BY <1>1, DataType, EmptySeq, LenProperties
<1>4. ASSUME Mark
      PROVE  /\ wire' = wire /\ Data(backed') = Data(backed) /\ Buffered(backed')
             /\ Buffered(marked') /\ marked' # None /\ Data(marked') = <<>>
             /\ Data(marked') \o Data(backed') \o wire' = Whole'
  <2>1. marked' = (IF marked = None THEN Some(<<>>) ELSE marked) /\ wire' = wire /\ backed' = backed
    BY <1>4 DEF Mark, Placed
  <2>2. Buffered(marked') /\ marked' # None /\ Data(marked') = <<>>
    BY <1>1, <1>3, <2>1, OptionFacts
  <2> QED BY <1>1, <1>2, <2>1, <2>2
<1>5. CASE CallSocks
  <2>1. pc' = "socks" /\ stage' = "head" /\ need' = 2 /\ got' = <<>> /\ Mark
    BY <1>5 DEF CallSocks, Expect
  <2>2. Len(got') + Len(Data(backed')) <= 2
    BY <1>1, <1>3, <1>4, <2>1
  <2> QED BY <1>1, <1>2, <1>4, <2>1, <2>2, EmptySeq
      DEF IInv, ReadAhead, NothingLost, PlainUnchanged, Running
<1>6. CASE Direct
  <2>1. pc' = "routed" /\ Mark
    BY <1>6 DEF Direct
  <2> QED BY <1>1, <1>2, <1>4, <2>1, EmptySeq
      DEF IInv, ReadAhead, NothingLost, PlainUnchanged, Running
<1>7. CASE SkipSocks
  <2>1. backed' = GivenBack(Placed) /\ marked' = None /\ wire' = wire /\ pc' = "select"
    BY <1>1, <1>7 DEF SkipSocks
  <2>2. backed' = Some(Data(backed))
    <3>1. Placed # None /\ Placed[1] = <<>>
      BY <1>1, OptionFacts DEF Placed, Data
    <3>2. Data(backed) \o <<>> = Data(backed)
      BY <1>3, ConcatEmptySeq
    <3> QED BY <2>1, <3>1, <3>2 DEF GivenBack
  <2>3. /\ Data(backed') = Data(backed) /\ Buffered(backed')
        /\ Data(marked') = <<>> /\ Buffered(marked')
    BY <1>3, <2>1, <2>2, OptionFacts
  <2> QED BY <1>1, <1>2, <2>1, <2>3, EmptySeq
      DEF IInv, ReadAhead, NothingLost, PlainUnchanged, Running
<1>8. CASE Unknown
  <2>1. pc' = "closed" /\ told' \in Seq(Answers)
    BY <1>8 DEF Unknown, End, IInv, ReadAhead
  <2> QED BY <2>1, EndKeeps DEF Running
<1> QED BY <1>5, <1>6, <1>7, <1>8 DEF Select

\* The reads of the handshake.
LEMMA ReadsKeep == IInv /\ Reads => IInv'
<1> SUFFICES ASSUME IInv, Reads PROVE IInv'
  OBVIOUS
<1>1. told \in Seq(Answers) /\ pc = "socks"
  BY DEF IInv, ReadAhead, Reads, ReadSome, ReadNothing, Pend
<1>2. CASE ReadNothing
  <2>1. pc' = "reset" /\ told' = told
    BY <1>2 DEF ReadNothing, End
  <2> QED BY <1>1, <2>1, EndKeeps DEF Running
<1>3. CASE Pend
  <2>1. /\ UNCHANGED <<hello, config, pc, told, via, out, wire, marked, backed, stage, need, got>>
        /\ Whole' = Whole
    BY <1>3, WholeConstant DEF Pend, fallbackVars
  <2> QED BY <1>1, <2>1 DEF IInv, ReadAhead, NothingLost, PlainUnchanged, Buffered, Data
<1>4. CASE ReadSome
  <2>1. /\ UNCHANGED <<hello, config, pc, told, stage, need>>
        /\ Whole' = Whole /\ Room > 0
    BY <1>4, WholeConstant DEF ReadSome
  <2>2. CASE told # <<>>
    BY <1>1, <2>1, <2>2 DEF IInv, ReadAhead, NothingLost, PlainUnchanged
  <2>3. CASE told = <<>>
    <3>1. /\ wire \in Seq(Nat) /\ Buffered(marked) /\ Buffered(backed) /\ marked # None
          /\ \/ /\ stage = "head" /\ need = 2
                /\ got = Data(marked) /\ Len(got) + Len(Data(backed)) <= 2
             \/ stage = "methods" /\ need \in Nat /\ got \in Seq(Nat) /\ Data(backed) = <<>>
          /\ Data(marked) \o Data(backed) \o wire = Whole
      BY <1>1, <2>3 DEF IInv, ReadAhead, NothingLost, Running
    <3>2. /\ need \in Nat /\ got \in Seq(Nat) /\ Len(got) \in Nat
          /\ Data(backed) \in Seq(Nat) /\ Len(Data(backed)) \in Nat
      BY <3>1, DataType, LenProperties
    <3>3. Room \in Nat
      BY <2>1, <3>2 DEF Room
    <3>4. PICK n \in ReadSizes(Room) : Read(n) /\ got' = got \o ReadBytes(n)
      BY <1>4 DEF ReadSome
    <3>5. /\ wire' \in Seq(Nat) /\ Buffered(marked') /\ Buffered(backed') /\ marked' # None
          /\ n \in Nat /\ ReadBytes(n) \in Seq(Nat) /\ Len(ReadBytes(n)) = n
          /\ Len(Data(backed')) = IF backed # None THEN Len(Data(backed)) - n ELSE 0
          /\ Data(marked') = Data(marked) \o ReadBytes(n)
          /\ Data(marked') \o Data(backed') \o wire' = Whole'
      BY <2>1, <3>1, <3>3, <3>4, ReadKeeps, OptionFacts
    <3>6. got' \in Seq(Nat) /\ Len(got') = Len(got) + n
      BY <3>2, <3>4, <3>5, ConcatProperties
    <3>7. CASE stage = "head"
      <4>1. got' = Data(marked')
        BY <3>1, <3>4, <3>5, <3>7
      <4>2. Len(got') + Len(Data(backed')) <= 2
        <5>1. CASE backed # None
          BY <3>1, <3>2, <3>5, <3>6, <3>7, <5>1
        <5>2. CASE backed = None
          <6>1. n <= Room
            BY <3>3, <3>4, <5>2 DEF ReadSizes
          <6> QED BY <3>1, <3>2, <3>5, <3>6, <3>7, <5>2, <6>1 DEF Room
        <5> QED BY <5>1, <5>2
      <4> QED BY <1>1, <2>1, <2>3, <3>1, <3>5, <3>7, <4>1, <4>2
          DEF IInv, ReadAhead, NothingLost, PlainUnchanged, Running
    <3>8. CASE stage = "methods"
      <4>1. Data(backed') = <<>>
        <5>1. Data(backed') \in Seq(Nat) /\ Len(Data(backed)) = 0
          BY <3>1, <3>5, <3>8, DataType, EmptySeq
        <5>2. Len(Data(backed')) = 0
          <6>1. Len(Data(backed')) \in Nat
            BY <5>1, LenProperties
          <6> QED BY <3>5, <5>1, <6>1
        <5> QED BY <5>1, <5>2, EmptySeq
      <4> QED BY <1>1, <2>1, <2>3, <3>2, <3>5, <3>6, <3>8, <4>1
          DEF IInv, ReadAhead, NothingLost, PlainUnchanged, Running
    <3> QED BY <3>1, <3>7, <3>8
  <2> QED BY <2>2, <2>3
<1> QED BY <1>2, <1>3, <1>4 DEF Reads

\* The second byte of a sequence that starts with two.
LEMMA SecondByte ==
  ASSUME NEW s \in Seq(Nat), NEW t \in Seq(Nat), Len(s) = 2
  PROVE  Len(s \o t) = 2 + Len(t) /\ (s \o t)[2] = s[2]
<1>1. Len(t) \in Nat
  BY LenProperties
<1>2. Len(s \o t) = Len(s) + Len(t)
  BY ConcatProperties
<1>3. \A i \in 1 .. Len(s) + Len(t) : (s \o t)[i] = IF i <= Len(s) THEN s[i] ELSE t[i - Len(s)]
  BY ConcatProperties
<1>4. 2 \in 1 .. Len(s) + Len(t) /\ 2 <= Len(s)
  BY <1>1
<1> QED BY <1>2, <1>3, <1>4

\* A head is complete once both of its bytes are the first that were sent.
LEMMA HeadComplete ==
  ASSUME IInv, told = <<>>, Complete("head"), hello \in Hellos, config \in Configs
  PROVE  Data(backed) = <<>> /\ Len(Data(marked)) = 2 /\ Byte(2) \in Nat
<1>1. /\ wire \in Seq(Nat) /\ Buffered(marked) /\ Buffered(backed)
      /\ got = Data(marked) /\ Len(got) + Len(Data(backed)) <= 2 /\ Len(got) = 2
      /\ Data(marked) \o Data(backed) \o wire = Whole
  BY DEF IInv, ReadAhead, NothingLost, Running, Complete, AtTop
<1>2. /\ got \in Seq(Nat) /\ Data(backed) \in Seq(Nat) /\ Len(Data(backed)) = 0
  BY <1>1, DataType, LenProperties
<1>3. Data(backed) = <<>>
  BY <1>2, EmptySeq
<1>4. Whole = got \o wire
  BY <1>1, <1>2, <1>3, ConcatEmptySeq
<1>5. Content \in Seq(Nat)
  BY ContentType
<1>6. Len(Whole) = 2 + Len(wire) /\ Whole[2] = got[2] /\ Len(wire) \in Nat
  <2>1. Len(wire) \in Nat
    BY <1>1, LenProperties
  <2>2. Len(got \o wire) = 2 + Len(wire) /\ (got \o wire)[2] = got[2]
    BY <1>1, <1>2, SecondByte
  <2> QED BY <1>4, <2>1, <2>2
<1>7. Len(Content) \in Nat /\ Len(Whole) = Len(Content)
  BY <1>5, LenProperties DEF Whole
<1>8. 2 \in 1 .. Len(Content) /\ got[2] = 2
  BY <1>6, <1>7 DEF Whole
<1>9. Byte(2) \in Nat
  BY <1>5, <1>8, ElementOfSeq DEF Byte
<1> QED BY <1>1, <1>3, <1>9

\* The steps of the handshake that look at what was read.
LEMMA HandshakeKeeps == IInv /\ hello \in Hellos /\ config \in Configs /\ Handshake => IInv'
<1> SUFFICES ASSUME IInv, hello \in Hellos, config \in Configs, Handshake PROVE IInv'
  OBVIOUS
<1>1. told \in Seq(Answers)
  BY DEF IInv, ReadAhead
<1>2. CASE Head5
  <2>1. /\ UNCHANGED <<wire, marked, backed, hello, config, pc, told, via, out>>
        /\ pc = "socks" /\ stage' = "methods" /\ need' = Byte(2) /\ got' = <<>>
        /\ Complete("head") /\ Whole' = Whole
    BY <1>2, WholeConstant DEF Head5, Expect, Complete, AtTop, fallbackVars
  <2>2. told = <<>> => Data(backed) = <<>> /\ need' \in Nat
    BY <2>1, HeadComplete
  <2> QED BY <1>1, <2>1, <2>2, EmptySeq
      DEF IInv, ReadAhead, NothingLost, PlainUnchanged, Running, Buffered, Data
<1>3. CASE NotSocks
  <2>1. /\ UNCHANGED <<wire, hello, config, told>> /\ Whole' = Whole
        /\ pc = "socks" /\ pc' = "select" /\ Complete("head")
        /\ backed' = (IF marked = None THEN backed ELSE Some(Data(backed) \o marked[1]))
        /\ marked' = None
    BY <1>3, WholeConstant DEF NotSocks, Complete, AtTop, Backward, GivenBack
  <2>2. told = <<>>
    BY <2>1 DEF IInv, ReadAhead, Complete
  <2>3. /\ wire \in Seq(Nat) /\ marked # None /\ Buffered(marked)
        /\ Data(marked) \o Data(backed) \o wire = Whole
    BY <2>1, <2>2 DEF IInv, ReadAhead, NothingLost, Running
  <2>4. Data(backed) = <<>> /\ Len(Data(marked)) = 2
    BY <2>1, <2>2, HeadComplete
  <2>5. Data(marked) \in Seq(Nat) /\ marked[1] = Data(marked) /\ <<>> \in Seq(Nat)
    BY <2>3, DataType, EmptySeq DEF Data
  <2>6. /\ <<>> \o Data(marked) = Data(marked) /\ Data(marked) \o <<>> = Data(marked)
    BY <2>5, ConcatEmptySeq
  <2>7. backed' = Some(Data(marked))
    BY <2>1, <2>3, <2>4, <2>5, <2>6
  <2>8. /\ Data(backed') = Data(marked) /\ Buffered(backed')
        /\ Data(marked') = <<>> /\ Buffered(marked')
    BY <2>1, <2>5, <2>7, OptionFacts
  <2>9. Data(marked') \o Data(backed') \o wire' = Whole'
    BY <2>1, <2>3, <2>4, <2>6, <2>8
  <2>10. wire' \in Seq(Nat) /\ told' = <<>> /\ pc' = "select"
    BY <2>1, <2>2, <2>3
  <2>11. Len(Data(backed')) <= 2
    <3>1. Len(Data(backed')) = 2
      BY <2>4, <2>8, Zenon
    <3> QED BY <3>1
  <2> QED BY <1>1, <2>2, <2>8, <2>9, <2>10, <2>11
      DEF IInv, ReadAhead, NothingLost, PlainUnchanged, Running
<1>4. CASE AnswerMethods
  <2>1. pc' = "socks" /\ stage' \in {"auth_version", "request"} /\ (Tell("password") \/ Tell("none"))
    BY <1>4 DEF AnswerMethods, Expect, Complete, AtTop
  <2> QED BY <2>1, TellKeeps DEF Answers
<1>5. CASE CheckCredentials
  <2>1. \/ Tell("granted") /\ pc' = "socks" /\ stage' = "request"
        \/ Tell("denied") /\ pc' = "failed"
    BY <1>5 DEF CheckCredentials, Expect, End, Complete, AtTop
  <2> QED BY <2>1, TellKeeps DEF Answers
<1>6. CASE RouteConnect
  <2>1. Tell("succeeded") /\ pc' = "routed" /\ via' = "socks"
    BY <1>6 DEF RouteConnect
  <2> QED BY <2>1, TellKeeps DEF Answers
<1>7. CASE RouteUdp
  <2>1. CASE config.udp
    <3>1. pc' = "provider" /\ told' = told
      BY <1>7, <2>1 DEF RouteUdp, End
    <3> QED BY <1>1, <3>1, EndKeeps DEF Running
  <2>2. CASE ~config.udp
    <3>1. pc' = "finished" /\ Tell("no_udp")
      BY <1>7, <2>2 DEF RouteUdp, End
    <3> QED BY <3>1, TellKeeps DEF Answers
  <2> QED BY <2>1, <2>2
<1>8. CASE Refuse \/ ParseNothing
  <2>1. pc' \in {"failed", "abort"} /\ told' = told
    BY <1>8 DEF Refuse, ParseNothing, End
  <2> QED BY <1>1, <2>1, EndKeeps DEF Running
<1>9. CASE ReadCredentials \/ Request \/ NameLength
  <2>1. /\ pc = "socks" /\ pc' = pc /\ told' = told
        /\ stage \notin {"head", "methods"} /\ stage' # "head"
    BY <1>9 DEF ReadCredentials, AuthStep, Request, NameLength, Expect, Complete, AtTop
  <2>2. told # <<>>
    BY <2>1 DEF IInv, ReadAhead, Running
  <2> QED BY <1>1, <2>1, <2>2 DEF IInv, ReadAhead, NothingLost, PlainUnchanged
<1> QED BY <1>2, <1>3, <1>4, <1>5, <1>6, <1>7, <1>8, <1>9 DEF Handshake

\* The client's connection gets what was read ahead.
LEMMA SpliceKeeps == IInv /\ Splice => IInv'
<1> SUFFICES ASSUME IInv, Splice PROVE IInv'
  OBVIOUS
<1>1. /\ UNCHANGED <<wire, hello, config, told, via>> /\ Whole' = Whole
      /\ pc = "routed" /\ pc' = "spliced" /\ out' = Data(GivenBack(marked))
  BY WholeConstant DEF Splice
<1>2. ASSUME via = "direct" PROVE out' \o wire' = Whole'
  <2>1. /\ wire \in Seq(Nat) /\ Data(marked) = <<>> /\ Buffered(backed)
        /\ Data(marked) \o Data(backed) \o wire = Whole
    BY <1>1, <1>2 DEF IInv, ReadAhead, NothingLost, Running
  <2>2. Data(backed) \in Seq(Nat)
    BY <2>1, DataType
  <2>3. Data(backed) \o <<>> = Data(backed) /\ <<>> \o Data(backed) = Data(backed)
    BY <2>2, ConcatEmptySeq
  <2>4. Data(GivenBack(marked)) = Data(backed)
    <3>1. CASE marked = None
      BY <3>1 DEF GivenBack
    <3>2. CASE marked # None
      <4>1. marked[1] = <<>>
        BY <2>1, <3>2 DEF Data
      <4> QED BY <2>3, <3>2, <4>1, OptionFacts DEF GivenBack
    <3> QED BY <3>1, <3>2
  <2> QED BY <1>1, <2>1, <2>3, <2>4
<1> QED BY <1>1, <1>2 DEF IInv, ReadAhead, NothingLost, PlainUnchanged, Running

-----------------------------------------------------------------------------
(* The theorems *)

\* Who the visitor is and what the client asked for stay what they were.
LEMMA WhoConstant == Spec => [](hello \in Hellos /\ config \in Configs)
<1> DEFINE Who == hello \in Hellos /\ config \in Configs
<1>1. Init => Who
  BY DEF Init
<1>2. Who /\ [Next]_vars => Who'
  BY DEF Next, Select, CallSocks, SkipSocks, Direct, Unknown, Reads, ReadSome, ReadNothing,
     Pend, Handshake, Head5, NotSocks, AnswerMethods, ReadCredentials, CheckCredentials,
     Request, NameLength, Refuse, ParseNothing, RouteConnect, RouteUdp, Splice, GiveUp,
     VisitorCloses, vars
<1> QED BY <1>1, <1>2, PTL DEF Spec

\* The invariant is kept by every step.
LEMMA StepKeeps ==
  IInv /\ hello \in Hellos /\ config \in Configs /\ [Next]_vars => IInv'
<1> SUFFICES ASSUME IInv, hello \in Hellos, config \in Configs, [Next]_vars PROVE IInv'
  OBVIOUS
<1>1. told \in Seq(Answers)
  BY DEF IInv, ReadAhead
<1>2. CASE GiveUp
  <2>1. pc' = "failed" /\ told' = told
    BY <1>2 DEF GiveUp, End
  <2> QED BY <1>1, <2>1, EndKeeps DEF Running
<1>3. CASE VisitorCloses \/ UNCHANGED vars
  <2>1. /\ UNCHANGED <<wire, marked, backed, hello, config, pc, told, via, out, stage, need, got>>
        /\ Whole' = Whole
    BY <1>3, WholeConstant DEF VisitorCloses, vars, fallbackVars, handshakeVars
  <2> QED BY <2>1 DEF IInv, ReadAhead, NothingLost, PlainUnchanged, Buffered, Data
<1> QED BY <1>2, <1>3, SelectKeeps, ReadsKeep, HandshakeKeeps, SpliceKeeps DEF Next

\* The inductive invariant.
THEOREM Rereadable == Spec => []IInv
<1>1. Init => IInv
  BY InitEstablishes
<1>2. IInv /\ (hello \in Hellos /\ config \in Configs) /\ [Next]_vars => IInv'
  BY StepKeeps
<1> QED BY <1>1, <1>2, WhoConstant, PTL DEF Spec

\* Until the visitor is written to, nothing it sent is lost or out of order.
THEOREM NothingIsLost == Spec => []NothingLost
<1>1. IInv => NothingLost
  BY DEF IInv
<1> QED BY <1>1, Rereadable, PTL

\* The default destination gets the visitor's bytes unchanged.
THEOREM PlainIsUnchanged == Spec => []PlainUnchanged
<1>1. IInv => PlainUnchanged
  BY DEF IInv
<1> QED BY <1>1, Rereadable, PTL

-----------------------------------------------------------------------------
(* Types, and the password *)

\* How much a stage of the handshake reads, as far as it looks at what it read.
Sizes ==
  pc = "socks" =>
    /\ stage \in {"head", "auth_version"} => need = 2
    /\ stage = "auth_user" => need >= 1
    /\ stage = "request" => need = 4
    /\ stage = "name" => need = 1

\* The visitor was asked for a password, and was told that it was right.
Asked(said) == Len(said) = 1 /\ said[1] = "password"
Answered(said) == Len(said) >= 2 /\ said[1] = "password" /\ said[2] = "granted"

\* What the visitor has been told at each stage.
Granted ==
  /\ pc = "select" => told = <<>>
  /\ pc \in {"select", "socks"} => via = "nobody"
  /\ pc = "socks" =>
       /\ stage \in {"head", "methods"} => told = <<>>
       /\ stage \in {"auth_version", "auth_user", "auth_pass"} => Asked(told)
       /\ stage \in {"request", "name", "address"} /\ config.auth =>
            hello.right /\ Answered(told)

TInv == TypeOK /\ Sizes /\ Granted /\ RoutedOnlyWithPassword

Bytes == Seq(1 .. Len(Content))

\* Parts of what a visitor sends, put together, are such parts; its bytes are numbers.
LEMMA BytesFacts ==
  ASSUME hello \in Hellos, config \in Configs
  PROVE  /\ Len(Content) \in Nat /\ <<>> \in Bytes
         /\ \A s, t \in Bytes : s \o t \in Bytes /\ Len(s \o t) = Len(s) + Len(t)
         /\ \A s \in Bytes : Len(s) \in Nat
         /\ \A s \in Bytes : \A i \in 1 .. Len(s) : Content[s[i]] \in Nat
<1>1. Content \in Seq(Nat) /\ Len(Content) \in Nat
  BY ContentType, LenProperties
<1>2. ASSUME NEW s \in Bytes, NEW i \in 1 .. Len(s) PROVE Content[s[i]] \in Nat
  <2>1. s[i] \in 1 .. Len(Content)
    BY ElementOfSeq DEF Bytes
  <2> QED BY <1>1, <2>1, ElementOfSeq
<1>3. ASSUME NEW s \in Bytes, NEW t \in Bytes PROVE s \o t \in Bytes /\ Len(s \o t) = Len(s) + Len(t)
  BY ConcatProperties DEF Bytes
<1> QED BY <1>1, <1>2, <1>3, EmptySeq, LenProperties DEF Bytes

\* A part of a sequence, from one end or the other.
LEMMA PartOf ==
  ASSUME NEW S, NEW s \in Seq(S), NEW n \in Nat, n <= Len(s)
  PROVE  /\ SubSeq(s, 1, n) \in Seq(S) /\ Len(SubSeq(s, 1, n)) = n
         /\ SubSeq(s, n + 1, Len(s)) \in Seq(S)
<1>1. Len(s) \in Nat /\ \A i \in 1 .. Len(s) : s[i] \in S
  BY LenProperties, ElementOfSeq
<1>2. SubSeq(s, 1, n) \in Seq(S) /\ Len(SubSeq(s, 1, n)) = n
  <2>1. \A i \in 1 .. n : s[i] \in S
    BY <1>1
  <2> QED BY <1>1, <2>1, SubSeqProperties
<1>3. SubSeq(s, n + 1, Len(s)) \in Seq(S)
  <2>1. \A i \in (n + 1) .. Len(s) : s[i] \in S
    BY <1>1
  <2> QED BY <1>1, <2>1, SubSeqProperties
<1> QED BY <1>2, <1>3

\* Nothing has been read or said.
LEMMA TInit == Init => TInv
<1> SUFFICES ASSUME Init PROVE TInv
  OBVIOUS
<1>1. hello \in Hellos /\ config \in Configs /\ config.adapters \in Seq({"socks", "direct"})
  BY ConfigsAssumption DEF Init
<1>2. Len(config.adapters) \in Nat
  BY <1>1, LenProperties
<1>3. Whole \in Bytes
  <2>1. Len(Content) \in Nat
    BY <1>1, BytesFacts
  <2> QED BY <2>1 DEF Whole, Bytes
<1>4. <<>> \in Bytes /\ Len(<<>>) = 0 /\ <<>> \in Seq(Answers)
  BY <1>1, BytesFacts, EmptySeq
<1>5. Data(marked) = <<>> /\ Data(backed) = <<>> /\ wire = Whole /\ fin = FALSE
  BY OptionFacts DEF Init, Marked
<1>6. TypeOK
  <2>1. 1 \in 1 .. Len(config.adapters) + 1
    BY <1>2
  <2>2. \A s \in {got, wire, Data(marked), Data(backed), out} : s \in Seq(1 .. Len(Content))
    BY <1>3, <1>4, <1>5 DEF Init, Bytes
  <2>3. 0 \in Nat /\ Len(<<>>) <= 0
    BY <1>4
  <2> QED BY <1>1, <1>4, <1>5, <2>1, <2>2, <2>3 DEF TypeOK, Init, Running, Stages
<1> QED BY <1>6 DEF TInv, Sizes, Granted, RoutedOnlyWithPassword, Init


\* The buffers of the guard hold bytes of the visitor.
Buffers == wire \in Bytes /\ Data(marked) \in Bytes /\ Data(backed) \in Bytes

\* The buffers of TypeOK one by one.
LEMMA TypedIs ==
  TypeOK <=>
    /\ hello \in Hellos /\ config \in Configs /\ pc \in Running \cup Ended
    /\ turn \in 1 .. Len(config.adapters) + 1
    /\ pc = "socks" => turn <= Len(config.adapters)
    /\ stage \in Stages /\ need \in Nat /\ Len(got) <= need
    /\ looping \in BOOLEAN /\ fin \in BOOLEAN /\ told \in Seq(Answers)
    /\ via \in {"nobody", "socks", "direct"}
    /\ Buffers /\ got \in Bytes /\ out \in Bytes
BY DEF TypeOK, Buffers, Bytes

\* mark(), backward() and what a write drops.
LEMMA GuardKeeps ==
  ASSUME hello \in Hellos, config \in Configs, Buffers, UNCHANGED <<hello, config>>
  PROVE  /\ Bytes' = Bytes
         /\ Data(Placed) \in Bytes /\ Data(GivenBack(marked)) \in Bytes
         /\ Data(GivenBack(Placed)) \in Bytes
         /\ Mark => Buffers' /\ fin' = fin
         /\ Backward => Buffers' /\ fin' = fin
         /\ DropBuffers => Buffers' /\ fin' = fin
<1>1. Bytes' = Bytes
  BY DEF Bytes, Content
<1>2. <<>> \in Bytes /\ Data(None) = <<>> /\ \A buf : Data(Some(buf)) = buf
  BY BytesFacts, OptionFacts
<1>3. Data(Placed) \in Bytes
  BY <1>2 DEF Placed, Buffers
<1>4. ASSUME NEW m, Data(m) \in Bytes PROVE Data(GivenBack(m)) \in Bytes
  <2>1. CASE m = None
    BY <2>1 DEF GivenBack, Buffers
  <2>2. CASE m # None
    <3>1. m[1] \in Bytes
      BY <1>4, <2>2 DEF Data
    <3>2. Data(backed) \o m[1] \in Bytes
      BY <3>1, BytesFacts DEF Buffers
    <3> QED BY <1>2, <2>2, <3>2 DEF GivenBack
  <2> QED BY <2>1, <2>2
<1>5. Data(GivenBack(marked)) \in Bytes /\ Data(GivenBack(Placed)) \in Bytes
  BY <1>3, <1>4 DEF Buffers
<1>6. ASSUME Mark PROVE Buffers' /\ fin' = fin
  <2>1. Data(marked') \in Bytes /\ Data(backed') = Data(backed) /\ wire' = wire
    BY <1>3, <1>6 DEF Mark
  <2> QED BY <1>1, <1>6, <2>1 DEF Mark, Buffers
<1>7. ASSUME Backward PROVE Buffers' /\ fin' = fin
  <2>1. Data(marked') \in Bytes /\ Data(backed') \in Bytes /\ wire' = wire
    BY <1>2, <1>5, <1>7 DEF Backward
  <2> QED BY <1>1, <1>7, <2>1 DEF Backward, Buffers
<1>8. ASSUME DropBuffers PROVE Buffers' /\ fin' = fin
  <2>1. Data(marked') \in Bytes /\ Data(backed') \in Bytes /\ wire' = wire
    BY <1>2, <1>8 DEF DropBuffers
  <2> QED BY <1>1, <1>8, <2>1 DEF DropBuffers, Buffers
<1> QED BY <1>1, <1>3, <1>5, <1>6, <1>7, <1>8

\* A read returns as many bytes as it says, no more than there is room for.
LEMMA ReadTyped ==
  ASSUME hello \in Hellos, config \in Configs, Buffers, UNCHANGED <<hello, config>>,
         NEW room \in Nat, NEW n \in ReadSizes(room), Read(n)
  PROVE  /\ Buffers' /\ fin' = fin
         /\ n \in Nat /\ n <= room /\ ReadBytes(n) \in Bytes /\ Len(ReadBytes(n)) = n
<1> DEFINE src == IF backed # None THEN Data(backed) ELSE wire
<1>1. src \in Bytes /\ Len(src) \in Nat /\ Bytes' = Bytes
  BY BytesFacts, GuardKeeps DEF Buffers
<1>2. n \in Nat /\ n <= room /\ n <= Len(src)
  <2>1. CASE backed # None
    BY <1>1, <2>1 DEF ReadSizes
  <2>2. CASE backed = None
    BY <2>2 DEF ReadSizes
  <2> QED BY <2>1, <2>2
<1>3. /\ SubSeq(src, 1, n) \in Bytes /\ Len(SubSeq(src, 1, n)) = n
      /\ SubSeq(src, n + 1, Len(src)) \in Bytes
  <2> HIDE DEF src
  <2> QED BY <1>1, <1>2, PartOf DEF Bytes
<1>4. ReadBytes(n) \in Bytes /\ Len(ReadBytes(n)) = n
  BY <1>3 DEF ReadBytes
<1>5. wire' \in Bytes
  BY <1>3 DEF Read, Buffers
<1>6. Data(backed') \in Bytes
  <2>1. CASE backed # None
    <3>1. backed' = None \/ backed' = Some(SubSeq(Data(backed), n + 1, Len(Data(backed))))
      BY <2>1 DEF Read
    <3> QED BY <1>3, <2>1, <3>1, OptionFacts, BytesFacts
  <2>2. CASE backed = None
    BY <2>2 DEF Read, Buffers
  <2> QED BY <2>1, <2>2
<1>7. Data(marked') \in Bytes
  <2>1. CASE marked = None
    <3>1. marked' = None
      BY <2>1 DEF Read
    <3> QED BY <3>1, OptionFacts, BytesFacts
  <2>2. CASE marked # None
    <3>1. marked' = Some(marked[1] \o ReadBytes(n)) /\ marked[1] \in Bytes
      BY <2>2 DEF Read, Buffers, Data
    <3> QED BY <1>4, <3>1, OptionFacts, BytesFacts
  <2> QED BY <2>1, <2>2
<1>8. fin' = fin
  BY DEF Read
<1> QED BY <1>1, <1>2, <1>4, <1>5, <1>6, <1>7, <1>8 DEF Buffers

\* The same of the next state.
LEMMA TypedNext ==
  TypeOK' <=>
    /\ hello' \in Hellos /\ config' \in Configs /\ pc' \in Running \cup Ended
    /\ turn' \in 1 .. Len(config'.adapters) + 1
    /\ pc' = "socks" => turn' <= Len(config'.adapters)
    /\ stage' \in Stages /\ need' \in Nat /\ Len(got') <= need'
    /\ looping' \in BOOLEAN /\ fin' \in BOOLEAN /\ told' \in Seq(Answers)
    /\ via' \in {"nobody", "socks", "direct"}
    /\ Buffers' /\ got' \in Bytes' /\ out' \in Bytes'
BY DEF TypeOK, Buffers, Bytes

\* What was said to a visitor once stays said.
LEMMA ToldAppend ==
  ASSUME told \in Seq(Answers), NEW m \in Answers
  PROVE  LET next == Append(told, m)
         IN /\ next \in Seq(Answers)
            /\ told = <<>> /\ m = "password" => Asked(next)
            /\ Asked(told) /\ m = "granted" => Answered(next)
            /\ Answered(told) => Answered(next)
<1> DEFINE next == Append(told, m)
<1>1. /\ next \in Seq(Answers) /\ Len(next) = Len(told) + 1 /\ next[Len(told) + 1] = m
      /\ \A i \in 1 .. Len(told) : next[i] = told[i]
  BY AppendProperties
<1>2. Len(told) \in Nat
  BY LenProperties
<1> HIDE DEF next
<1>3. told = <<>> /\ m = "password" => Asked(next)
  BY <1>1, EmptySeq DEF Asked
<1>4. Asked(told) /\ m = "granted" => Answered(next)
  BY <1>1 DEF Asked, Answered
<1>5. Answered(told) => Answered(next)
  BY <1>1, <1>2 DEF Answered
<1> QED BY <1>1, <1>3, <1>4, <1>5 DEF next

\* A buffer of the handshake is made anew.
LEMMA ExpectTyped ==
  ASSUME hello \in Hellos, config \in Configs, UNCHANGED <<hello, config>>,
         NEW s \in Stages, NEW n \in Nat, Expect(s, n)
  PROVE  /\ stage' = s /\ need' = n /\ looping' = FALSE
         /\ need' \in Nat /\ Len(got') <= need' /\ got' \in Bytes'
<1>1. <<>> \in Bytes /\ Bytes' = Bytes /\ Len(<<>>) = 0
  BY BytesFacts, EmptySeq DEF Bytes, Content
<1> QED BY <1>1 DEF Expect

\* The steps of the selector.
LEMMA SelectT == TInv /\ Select => TInv'
<1> SUFFICES ASSUME TInv, Select PROVE TInv'
  OBVIOUS
<1> USE DEF TInv, Sizes, Granted, RoutedOnlyWithPassword
<1>1. /\ hello \in Hellos /\ config \in Configs /\ UNCHANGED <<hello, config, told>>
      /\ pc = "select" /\ via = "nobody" /\ Len(config.adapters) \in Nat
  <2>1. config.adapters \in Seq({"socks", "direct"})
    BY ConfigsAssumption, TypedIs
  <2> QED BY <2>1, TypedIs, LenProperties
      DEF Select, CallSocks, SkipSocks, Direct, Unknown
<1>2. Bytes' = Bytes
  BY <1>1 DEF Bytes, Content
<1>3. CASE CallSocks
  <2>1. Buffers' /\ fin' = fin
    BY <1>1, <1>3, TypedIs, GuardKeeps DEF CallSocks
  <2>2. stage' = "head" /\ need' = 2 /\ looping' = FALSE /\ Len(got') <= need' /\ got' \in Bytes'
    BY <1>1, <1>3, ExpectTyped DEF CallSocks, Stages
  <2>3. TypeOK'
    BY <1>1, <1>2, <1>3, <2>1, <2>2, TypedIs, TypedNext DEF CallSocks, Running, Stages
  <2> QED BY <1>1, <1>3, <2>2, <2>3 DEF CallSocks
<1>4. CASE Direct
  <2>1. Buffers' /\ fin' = fin
    BY <1>1, <1>4, TypedIs, GuardKeeps DEF Direct
  <2>2. TypeOK'
    BY <1>1, <1>2, <1>4, <2>1, TypedIs, TypedNext DEF Direct, Running, handshakeVars
  <2> QED BY <1>1, <1>4, <2>2 DEF Direct
<1>5. CASE SkipSocks
  <2>1. Data(marked') \in Bytes /\ Data(backed') \in Bytes
    BY <1>1, <1>5, TypedIs, GuardKeeps, BytesFacts, OptionFacts DEF SkipSocks
  <2>2. Buffers'
    BY <1>2, <1>5, <2>1, TypedIs DEF SkipSocks, Buffers
  <2>3. turn' \in 1 .. Len(config.adapters) + 1
    BY <1>1, <1>5, TypedIs DEF SkipSocks
  <2>4. TypeOK'
    BY <1>1, <1>2, <1>5, <2>2, <2>3, TypedIs, TypedNext DEF SkipSocks, Running, handshakeVars
  <2> QED BY <1>1, <1>5, <2>4 DEF SkipSocks
<1>6. CASE Unknown
  <2>1. /\ pc' = "closed"
        /\ UNCHANGED <<wire, fin, marked, backed, turn, stage, need, got, looping, via, out>>
    BY <1>6 DEF Unknown, End, handshakeVars, fallbackVars
  <2>2. Buffers'
    BY <1>2, <2>1, TypedIs DEF Buffers
  <2>3. TypeOK'
    BY <1>1, <1>2, <2>1, <2>2, TypedIs, TypedNext DEF Ended
  <2> QED BY <1>1, <2>1, <2>3
<1> QED BY <1>3, <1>4, <1>5, <1>6 DEF Select

\* The reads of the handshake.
LEMMA ReadsT == TInv /\ Reads => TInv'
<1> SUFFICES ASSUME TInv, Reads PROVE TInv'
  OBVIOUS
<1> USE DEF TInv, Sizes, Granted, RoutedOnlyWithPassword
<1>1. /\ hello \in Hellos /\ config \in Configs /\ UNCHANGED <<hello, config, told>>
      /\ pc = "socks" /\ via = "nobody" /\ need \in Nat /\ Len(got) \in Nat /\ Len(got) <= need
  BY TypedIs, BytesFacts DEF Reads, ReadSome, ReadNothing, Pend
<1>2. Bytes' = Bytes
  BY <1>1 DEF Bytes, Content
<1>3. CASE ReadSome
  <2>1. Room \in Nat
    BY <1>1, <1>3 DEF ReadSome, Room
  <2>2. PICK n \in ReadSizes(Room) :
          Read(n) /\ got' = got \o ReadBytes(n) /\ looping' = (~Authenticating /\ Len(got) + n # Room)
    BY <1>3 DEF ReadSome
  <2>3. /\ Buffers' /\ fin' = fin
        /\ n \in Nat /\ n <= Room /\ ReadBytes(n) \in Bytes /\ Len(ReadBytes(n)) = n
    BY <1>1, <2>1, <2>2, ReadTyped, TypedIs
  <2>4. got' \in Bytes' /\ Len(got') = Len(got) + n
    BY <1>1, <1>2, <2>2, <2>3, BytesFacts, TypedIs
  <2>5. Len(got') <= need' /\ need' = need
    BY <1>1, <1>3, <2>3, <2>4 DEF Room, ReadSome
  <2>6. TypeOK'
    BY <1>1, <1>2, <1>3, <2>2, <2>3, <2>4, <2>5, TypedIs, TypedNext DEF ReadSome
  <2> QED BY <1>1, <1>3, <2>6 DEF ReadSome
<1>4. CASE ReadNothing
  <2>1. /\ pc' = "reset"
        /\ UNCHANGED <<wire, fin, marked, backed, turn, stage, need, got, looping, via, out>>
    BY <1>4 DEF ReadNothing, End, handshakeVars, fallbackVars
  <2>2. Buffers'
    BY <1>2, <2>1, TypedIs DEF Buffers
  <2>3. TypeOK'
    BY <1>1, <1>2, <2>1, <2>2, TypedIs, TypedNext DEF Ended
  <2> QED BY <1>1, <2>1, <2>3
<1>5. CASE Pend
  <2>1. Buffers'
    BY <1>2, <1>5, TypedIs DEF Buffers, Pend, fallbackVars
  <2>2. TypeOK'
    BY <1>1, <1>2, <1>5, <2>1, TypedIs, TypedNext DEF Pend, fallbackVars
  <2> QED BY <1>1, <1>5, <2>2 DEF Pend
<1> QED BY <1>3, <1>4, <1>5 DEF Reads

\* What the handshake looks at is a byte.
LEMMA ByteTyped ==
  ASSUME TypeOK, Len(got) = need, NEW i \in 1 .. need
  PROVE  Byte(i) \in Nat
BY BytesFacts, TypedIs DEF Byte

\* The handshake goes on to read something else, and may have said something.
LEMMA NextStage ==
  ASSUME TypeOK, UNCHANGED <<hello, config, pc, turn, via, out>>, pc = "socks",
         Buffers', fin' = fin, told' \in Seq(Answers), NEW s \in Stages, NEW n \in Nat, Expect(s, n)
  PROVE  TypeOK'
<1>1. /\ stage' = s /\ need' = n /\ looping' = FALSE
      /\ need' \in Nat /\ Len(got') <= need' /\ got' \in Bytes'
  BY ExpectTyped, TypedIs
<1>2. Bytes' = Bytes
  BY DEF Bytes, Content
<1> QED BY <1>1, <1>2, TypedIs, TypedNext

\* The handshake is over without a route.
LEMMA EndTyped ==
  ASSUME TypeOK, UNCHANGED <<hello, config>>, Buffers', fin' = fin, told' \in Seq(Answers),
         NEW as \in Ended, End(as)
  PROVE  TypeOK'
<1>1. pc' = as /\ UNCHANGED <<turn, stage, need, got, looping, via, out>>
  BY DEF End, handshakeVars
<1>2. Bytes' = Bytes
  BY DEF Bytes, Content
<1> QED BY <1>1, <1>2, TypedIs, TypedNext DEF Ended

\* The steps of the handshake, one case per action.
LEMMA HandshakeT == TInv /\ Handshake => TInv'
<1> SUFFICES ASSUME TInv, Handshake PROVE TInv'
  OBVIOUS
<1> USE DEF TInv, Sizes, Granted, RoutedOnlyWithPassword
<1>1. /\ hello \in Hellos /\ config \in Configs /\ UNCHANGED <<hello, config>>
      /\ pc = "socks" /\ via = "nobody" /\ need \in Nat /\ Len(got) = need
      /\ Buffers /\ told \in Seq(Answers) /\ turn <= Len(config.adapters)
      /\ turn \in 1 .. Len(config.adapters) + 1 /\ got \in Bytes /\ out \in Bytes
      /\ looping \in BOOLEAN /\ fin \in BOOLEAN
  BY TypedIs DEF Handshake, Head5, NotSocks, AnswerMethods, ReadCredentials, AuthStep,
     CheckCredentials, Request, NameLength, Refuse, BadAuth, BadRequest, BadCommand,
     ParseNothing, RouteConnect, RouteUdp, Complete, AtTop
<1>2. Bytes' = Bytes
  BY <1>1 DEF Bytes, Content
<1>3. UNCHANGED fallbackVars => Buffers' /\ fin' = fin
  BY <1>1, <1>2 DEF Buffers, fallbackVars
<1>4. DropBuffers => Buffers' /\ fin' = fin
  BY <1>1, GuardKeeps
<1>5. /\ \A m \in Answers : Append(told, m) \in Seq(Answers)
      /\ told = <<>> => Asked(Append(told, "password"))
      /\ Asked(told) => Answered(Append(told, "granted"))
      /\ \A m \in Answers : Answered(told) => Answered(Append(told, m))
  <2>1. "password" \in Answers /\ "granted" \in Answers
    BY DEF Answers
  <2> QED BY <1>1, <2>1, ToldAppend
<1>6. CASE Head5
  <2>1. stage = "head" /\ need = 2 /\ Byte(2) \in Nat /\ Expect("methods", Byte(2))
    BY <1>1, <1>6, ByteTyped DEF Head5, Complete
  <2>2. TypeOK'
    BY <1>1, <1>3, <1>6, <2>1, NextStage DEF Head5, Stages
  <2> QED BY <1>1, <1>6, <2>1, <2>2 DEF Head5, Expect
<1>7. CASE NotSocks
  <2>1. stage = "head" /\ Expect("head", 0) /\ pc' = "select" /\ turn' = turn + 1
    BY <1>7 DEF NotSocks, Complete
  <2>2. Buffers' /\ fin' = fin
    BY <1>1, <1>7, GuardKeeps DEF NotSocks
  <2>3. stage' = "head" /\ need' \in Nat /\ looping' = FALSE /\ Len(got') <= need' /\ got' \in Bytes'
    BY <1>1, <2>1, ExpectTyped DEF Stages
  <2>4. turn' \in 1 .. Len(config.adapters) + 1
    <3>1. Len(config.adapters) \in Nat
      BY <1>1, ConfigsAssumption, LenProperties
    <3> QED BY <1>1, <2>1, <3>1
  <2>5. TypeOK'
    BY <1>1, <1>2, <1>7, <2>1, <2>2, <2>3, <2>4, TypedNext DEF NotSocks, Running, Stages
  <2> QED BY <1>1, <1>7, <2>1, <2>5 DEF NotSocks
<1>8. CASE AnswerMethods
  <2>1. stage = "methods" /\ told = <<>> /\ Buffers' /\ fin' = fin
    BY <1>1, <1>4, <1>8 DEF AnswerMethods, Complete
  <2>2. CASE config.auth
    <3>1. Asked(told') /\ told' \in Seq(Answers) /\ Expect("auth_version", 2)
      BY <1>5, <1>8, <2>1, <2>2 DEF AnswerMethods, Tell, Answers
    <3>2. TypeOK'
      BY <1>1, <1>8, <2>1, <3>1, NextStage DEF AnswerMethods, Stages
    <3> QED BY <1>1, <1>8, <3>1, <3>2 DEF AnswerMethods, Expect
  <2>3. CASE ~config.auth
    <3>1. told' \in Seq(Answers) /\ Expect("request", 4)
      BY <1>5, <1>8, <2>1, <2>3 DEF AnswerMethods, Tell, Answers
    <3>2. TypeOK'
      BY <1>1, <1>8, <2>1, <3>1, NextStage DEF AnswerMethods, Stages
    <3> QED BY <1>1, <1>8, <2>3, <3>1, <3>2 DEF AnswerMethods, Expect
  <2> QED BY <2>2, <2>3
<1>9. CASE ReadCredentials
  <2>1. Buffers' /\ fin' = fin /\ told' = told /\ UNCHANGED <<pc, turn, via, out>>
    BY <1>3, <1>9 DEF ReadCredentials
  <2>2. CASE stage = "auth_version" /\ Expect("auth_user", Byte(2) + 1)
    <3>1. need = 2 /\ Byte(2) \in Nat
      BY <1>1, <2>2, ByteTyped
    <3>2. Byte(2) + 1 \in Nat /\ Byte(2) + 1 >= 1
      BY <3>1
    <3>3. TypeOK'
      BY <1>1, <2>1, <2>2, <3>2, NextStage DEF Stages
    <3> QED BY <1>1, <2>1, <2>2, <3>2, <3>3 DEF Expect
  <2>3. CASE stage = "auth_user" /\ Expect("auth_pass", Byte(need))
    <3>1. Byte(need) \in Nat
      BY <1>1, <2>3, ByteTyped
    <3>2. TypeOK'
      BY <1>1, <2>1, <2>3, <3>1, NextStage DEF Stages
    <3> QED BY <1>1, <2>1, <2>3, <3>2 DEF Expect
  <2> QED BY <1>9, <2>2, <2>3 DEF ReadCredentials, AuthStep, Complete
<1>10. CASE CheckCredentials
  <2>1. stage = "auth_pass" /\ Asked(told) /\ Buffers' /\ fin' = fin
    BY <1>1, <1>4, <1>10 DEF CheckCredentials, Complete
  <2>2. CASE hello.right
    <3>1. Answered(told') /\ told' \in Seq(Answers) /\ Expect("request", 4)
      BY <1>5, <1>10, <2>1, <2>2 DEF CheckCredentials, Tell, Answers
    <3>2. TypeOK'
      BY <1>1, <1>10, <2>1, <2>2, <3>1, NextStage DEF CheckCredentials, Stages
    <3> QED BY <1>1, <1>10, <2>2, <3>1, <3>2 DEF CheckCredentials, Expect
  <2>3. CASE ~hello.right
    <3>1. told' \in Seq(Answers) /\ End("failed")
      BY <1>5, <1>10, <2>1, <2>3 DEF CheckCredentials, Tell, Answers
    <3>2. TypeOK'
      BY <1>1, <2>1, <3>1, EndTyped DEF Ended
    <3> QED BY <1>1, <3>1, <3>2 DEF End
  <2> QED BY <2>2, <2>3
<1>11. CASE Request
  <2>1. Buffers' /\ fin' = fin /\ told' = told /\ UNCHANGED <<pc, turn, via, out>> /\ stage = "request"
    BY <1>3, <1>11 DEF Request, Complete
  <2>2. CASE Byte(4) = 3
    <3>1. Expect("name", 1)
      BY <1>11, <2>2 DEF Request
    <3>2. TypeOK'
      BY <1>1, <2>1, <3>1, NextStage DEF Stages
    <3> QED BY <1>1, <2>1, <3>1, <3>2 DEF Expect
  <2>3. CASE Byte(4) # 3
    <3>1. Expect("address", AddressLen(Byte(4))) /\ AddressLen(Byte(4)) \in Nat
      BY <1>11, <2>3 DEF Request, AddressLen
    <3>2. TypeOK'
      BY <1>1, <2>1, <3>1, NextStage DEF Stages
    <3> QED BY <1>1, <2>1, <3>1, <3>2 DEF Expect
  <2> QED BY <2>2, <2>3
<1>12. CASE NameLength
  <2> DEFINE len == (Byte(1) + 2) % ByteMod
             s == IF len = 1 THEN "name" ELSE "address"
  <2>1. Buffers' /\ fin' = fin /\ told' = told /\ UNCHANGED <<pc, turn, via, out>> /\ stage = "name"
    BY <1>3, <1>12 DEF NameLength, Complete
  <2>2. Byte(1) \in Nat /\ need = 1
    BY <1>1, <2>1, ByteTyped
  <2>3. len \in Nat
    BY <2>2, ByteAssumption
  <2>4. Expect(s, len) /\ s \in Stages /\ (s = "name" => len = 1) /\ s \in {"name", "address"}
    BY <1>12 DEF NameLength, Stages
  <2> HIDE DEF len, s
  <2>5. TypeOK'
    BY <1>1, <2>1, <2>3, <2>4, NextStage
  <2> QED BY <1>1, <2>1, <2>4, <2>5 DEF Expect
<1>13. CASE Refuse \/ ParseNothing
  <2>1. PICK as \in {"failed", "abort"} : End(as)
    BY <1>13 DEF Refuse, ParseNothing
  <2>2. Buffers' /\ fin' = fin /\ told' = told
    BY <1>3, <1>13 DEF Refuse, ParseNothing
  <2>3. TypeOK'
    BY <1>1, <2>1, <2>2, EndTyped DEF Ended
  <2> QED BY <1>1, <2>1, <2>2, <2>3 DEF End
<1>14. CASE RouteConnect
  <2>1. /\ stage = "address" /\ told' = Append(told, "succeeded") /\ pc' = "routed" /\ via' = "socks"
        /\ UNCHANGED <<turn, out>> /\ Expect("head", 0) /\ Buffers' /\ fin' = fin
    BY <1>4, <1>14 DEF RouteConnect, Complete, Tell
  <2>2. told' \in Seq(Answers)
    BY <1>5, <2>1 DEF Answers
  <2>3. stage' = "head" /\ need' \in Nat /\ looping' = FALSE /\ Len(got') <= need' /\ got' \in Bytes'
    BY <1>1, <2>1, ExpectTyped DEF Stages
  <2>4. TypeOK'
    BY <1>1, <1>2, <2>1, <2>2, <2>3, TypedNext DEF Running, Stages
  <2>5. config.auth => hello.right /\ told'[1] = "password" /\ told'[2] = "granted"
    BY <1>1, <1>5, <2>1 DEF Answers, Answered
  <2> QED BY <1>1, <2>1, <2>4, <2>5
<1>15. CASE RouteUdp
  <2>1. /\ stage = "address" /\ Buffers' /\ fin' = fin
        /\ \/ End("provider") /\ told' = told
           \/ End("finished") /\ told' = Append(told, "no_udp")
    BY <1>4, <1>15 DEF RouteUdp, Complete, Tell
  <2>2. told' \in Seq(Answers)
    BY <1>1, <1>5, <2>1 DEF Answers
  <2>3. TypeOK'
    BY <1>1, <2>1, <2>2, EndTyped DEF Ended
  <2>4. config.auth => hello.right /\ told'[1] = "password" /\ told'[2] = "granted"
    BY <1>1, <1>5, <2>1 DEF Answers, Answered
  <2> QED BY <1>1, <2>1, <2>3, <2>4 DEF End
<1> QED BY <1>6, <1>7, <1>8, <1>9, <1>10, <1>11, <1>12, <1>13, <1>14, <1>15 DEF Handshake

\* The steps outside the selector and the handshake.
LEMMA OthersT == TInv /\ (Splice \/ GiveUp \/ VisitorCloses \/ UNCHANGED vars) => TInv'
<1> SUFFICES ASSUME TInv, Splice \/ GiveUp \/ VisitorCloses \/ UNCHANGED vars PROVE TInv'
  OBVIOUS
<1> USE DEF TInv, Sizes, Granted, RoutedOnlyWithPassword
<1>1. /\ hello \in Hellos /\ config \in Configs /\ UNCHANGED <<hello, config, told>> /\ Buffers
  BY TypedIs DEF Splice, GiveUp, VisitorCloses, vars
<1>2. Bytes' = Bytes
  BY <1>1 DEF Bytes, Content
<1>3. CASE Splice
  <2>1. Data(GivenBack(marked)) \in Bytes /\ Data(None) \in Bytes
    BY <1>1, GuardKeeps, BytesFacts, OptionFacts
  <2>2. Buffers' /\ out' \in Bytes'
    BY <1>1, <1>2, <1>3, <2>1 DEF Splice, Buffers
  <2>3. TypeOK'
    BY <1>1, <1>2, <1>3, <2>2, TypedIs, TypedNext DEF Splice, handshakeVars, Ended
  <2> QED BY <1>1, <1>3, <2>3 DEF Splice
<1>4. CASE GiveUp
  <2>1. Buffers' /\ fin' = fin /\ End("failed") /\ told' \in Seq(Answers)
    BY <1>1, <1>2, <1>4, TypedIs DEF GiveUp, fallbackVars, Buffers
  <2>2. TypeOK'
    BY <1>1, <2>1, EndTyped DEF Ended
  <2> QED BY <1>1, <2>1, <2>2 DEF End
<1>5. CASE VisitorCloses
  <2>1. Buffers'
    BY <1>1, <1>2, <1>5 DEF VisitorCloses, Buffers
  <2>2. TypeOK'
    BY <1>1, <1>2, <1>5, <2>1, TypedIs, TypedNext DEF VisitorCloses, handshakeVars
  <2> QED BY <1>1, <1>5, <2>2 DEF VisitorCloses, handshakeVars
<1>6. CASE UNCHANGED vars
  <2>1. Buffers'
    BY <1>1, <1>2, <1>6 DEF vars, fallbackVars, Buffers
  <2>2. TypeOK'
    BY <1>1, <1>2, <1>6, <2>1, TypedIs, TypedNext DEF vars, fallbackVars, handshakeVars
  <2> QED BY <1>1, <1>6, <2>2 DEF vars, handshakeVars
<1> QED BY <1>3, <1>4, <1>5, <1>6

\* Types, sizes of the buffers, what was said at each stage and the password hold together.
THEOREM Guarded == Spec => []TInv
<1>1. TInv /\ [Next]_vars => TInv'
  BY SelectT, ReadsT, HandshakeT, OthersT DEF Next
<1> QED BY <1>1, TInit, PTL DEF Spec

\* Whatever a visitor sends, the handshake's buffers (net/socks/mod.rs) and the guarded
\* stream's (guard/buffer.rs) hold bytes of it, and every buffer is filled at most to its size.
THEOREM TypeCorrect == Spec => []TypeOK
<1>1. TInv => TypeOK
  BY DEF TInv
<1> QED BY <1>1, Guarded, PTL

\* With a password set, no route is opened and no association is provided by SOCKS5 before
\* the visitor was asked for the password, gave the right one and was told so.
THEOREM RoutesNeedThePassword == Spec => []RoutedOnlyWithPassword
<1>1. TInv => RoutedOnlyWithPassword
  BY DEF TInv
<1> QED BY <1>1, Guarded, PTL

-----------------------------------------------------------------------------
(* What a destination asked for by SOCKS5 gets                               *)

\* Where the request starts in what the visitor sends, and where its address ends.
RequestAt == 2 + Len(hello.offers) + (IF config.auth THEN 4 + hello.pass ELSE 0)
AddressAt == RequestAt + 4 + (IF hello.atype = 3 THEN 1 ELSE 0)
AddressSize == IF hello.atype = 3 THEN hello.name + 2 ELSE AddressLen(hello.atype)

\* The bytes read into read_buf are those after the first p, and the others are on the wire.
ReadFrom(p) ==
  /\ p + Len(got) + Len(wire) = Len(Content)
  /\ \A i \in 1 .. Len(got) : got[i] = p + i
  /\ \A i \in 1 .. Len(wire) : wire[i] = p + Len(got) + i

\* Each stage reads its part of the dialogue and no more.
Part(p) ==
  /\ stage = "methods" => p = 2 /\ need = Len(hello.offers)
  /\ stage = "auth_version" => config.auth /\ p = 2 + Len(hello.offers) /\ need = 2
  /\ stage = "auth_user" => config.auth /\ p = 4 + Len(hello.offers) /\ need = 2
  /\ stage = "auth_pass" => config.auth /\ p = 6 + Len(hello.offers) /\ need = hello.pass
  /\ stage = "request" => p = RequestAt /\ need = 4
  /\ stage = "name" => hello.atype = 3 /\ p = RequestAt + 4 /\ need = 1
  /\ stage = "address" => hello.atype \in {1, 3, 4} /\ p = AddressAt /\ need = AddressSize

\* The length of a name that fits no byte is lost, and with it the place in the dialogue.
InStep == (stage \in {"name", "address"} => ~LongName) => \E p \in Nat : Part(p) /\ ReadFrom(p)

\* After the head, nothing is given back or remembered but by the methods.
NoReadAhead == Data(backed) = <<>> /\ (stage # "methods" => marked = None /\ backed = None)

\* A handshake past the head has read exactly what came before its stage, and leaves the
\* payload, whole and alone, on the wire when it routes.
PInv ==
  /\ pc = "socks" /\ stage # "head" => hello.socks /\ InStep /\ NoReadAhead
  /\ pc = "routed" /\ via = "socks" /\ ~LongName =>
       marked = None /\ backed = None /\ wire = Payload
  /\ PayloadOnly

\* Elements of a concatenation.
LEMMA ConcatAt ==
  ASSUME NEW s \in Seq(Nat), NEW t \in Seq(Nat)
  PROVE  /\ s \o t \in Seq(Nat) /\ Len(s \o t) = Len(s) + Len(t)
         /\ \A i \in 1 .. Len(s) : (s \o t)[i] = s[i]
         /\ \A i \in 1 .. Len(t) : (s \o t)[Len(s) + i] = t[i]
         /\ Len(s) \in Nat /\ Len(t) \in Nat
<1>1. Len(s) \in Nat /\ Len(t) \in Nat
  BY LenProperties
<1>2. s \o t \in Seq(Nat) /\ Len(s \o t) = Len(s) + Len(t)
  BY ConcatProperties
<1>3. \A i \in 1 .. Len(s) + Len(t) : (s \o t)[i] = IF i <= Len(s) THEN s[i] ELSE t[i - Len(s)]
  BY ConcatProperties
<1>4. ASSUME NEW i \in 1 .. Len(s) PROVE (s \o t)[i] = s[i]
  BY <1>1, <1>3
<1>5. ASSUME NEW i \in 1 .. Len(t) PROVE (s \o t)[Len(s) + i] = t[i]
  <2>1. Len(s) + i \in 1 .. Len(s) + Len(t) /\ ~(Len(s) + i <= Len(s)) /\ (Len(s) + i) - Len(s) = i
    BY <1>1
  <2> QED BY <1>3, <2>1
<1> QED BY <1>1, <1>2, <1>4, <1>5

\* A visitor that does not speak SOCKS5 sends nothing that looks like it.
LEMMA PlainContent ==
  ASSUME hello \in Hellos, config \in Configs, ~hello.socks
  PROVE  \A i \in 1 .. Len(Content) : Content[i] = 1
<1>1. hello.data \in Nat /\ Filler(hello.data) \in Seq(Nat)
  BY HellosAssumption DEF Filler
<1>2. Content = Filler(hello.data)
  BY <1>1, ConcatEmptySeq DEF Content, Dialogue
<1> QED BY <1>1, <1>2 DEF Filler

\* What the handshake looks at, and where it stands.
LEMMA SocksContent ==
  ASSUME hello \in Hellos, config \in Configs, hello.socks
  PROVE  /\ Content[2] = Len(hello.offers)
         /\ config.auth => /\ Content[2 + Len(hello.offers) + 2] = 1
                           /\ Content[4 + Len(hello.offers) + 2] = hello.pass
         /\ Content[RequestAt + 4] = hello.atype
         /\ hello.atype = 3 => Content[RequestAt + 5] = hello.name
         /\ hello.atype \in {1, 3, 4} => Len(Dialogue(hello, config)) = AddressAt + AddressSize
         /\ Len(Content) = Len(Dialogue(hello, config)) + hello.data
         /\ Dialogue(hello, config) \in Seq(Nat)
<1> DEFINE greeting == <<5, Len(hello.offers)>>
           credentials == IF config.auth THEN Credentials(hello) ELSE <<>>
           request == <<5, hello.cmd, 0, hello.atype>>
           address == Address(hello)
           filler == Filler(hello.data)
           no == Len(hello.offers)
           nc == IF config.auth THEN 4 + hello.pass ELSE 0
           one == greeting \o hello.offers
           two == one \o credentials
           three == two \o request
           four == three \o address
<1>1. /\ hello.offers \in Seq(Nat) /\ hello.pass \in Nat /\ hello.cmd \in Nat
      /\ hello.atype \in Nat /\ hello.name \in Nat /\ hello.data \in Nat
      /\ no \in Nat
  BY HellosAssumption, LenProperties
<1>2. \A n \in Nat : Filler(n) \in Seq(Nat) /\ Len(Filler(n)) = n
  BY DEF Filler
<1>3. greeting \in Seq(Nat) /\ Len(greeting) = 2 /\ greeting[2] = no
  BY <1>1
<1>4. request \in Seq(Nat) /\ Len(request) = 4 /\ request[4] = hello.atype
  BY <1>1
<1>5. /\ credentials \in Seq(Nat) /\ Len(credentials) = nc
      /\ config.auth => credentials[2] = 1 /\ credentials[4] = hello.pass
  <2>1. CASE config.auth
    <3> DEFINE head == <<1, 1, 1, hello.pass>>
               rest == Filler(hello.pass)
    <3>1. head \in Seq(Nat) /\ Len(head) = 4 /\ head[2] = 1 /\ head[4] = hello.pass
      BY <1>1
    <3>2. rest \in Seq(Nat) /\ Len(rest) = hello.pass
      BY <1>1, <1>2
    <3>3. credentials = head \o rest
      BY <2>1 DEF Credentials
    <3> HIDE DEF head, rest, credentials
    <3>4. /\ head \o rest \in Seq(Nat) /\ Len(head \o rest) = Len(head) + Len(rest)
          /\ \A i \in 1 .. Len(head) : (head \o rest)[i] = head[i]
      <4>1. head \in Seq(Nat) /\ rest \in Seq(Nat)
        BY <3>1, <3>2, Zenon
      <4> QED BY <4>1, ConcatAt, Zenon
    <3>5. 2 \in 1 .. Len(head) /\ 4 \in 1 .. Len(head)
      BY <3>1
    <3> QED BY <2>1, <3>1, <3>2, <3>3, <3>4, <3>5
  <2>2. CASE ~config.auth
    BY <2>2, EmptySeq
  <2> QED BY <2>1, <2>2
<1>6. /\ address \in Seq(Nat)
      /\ hello.atype = 3 => Len(address) = hello.name + 3 /\ address[1] = hello.name
      /\ hello.atype \in {1, 4} => Len(address) = AddressLen(hello.atype)
  <2>1. CASE hello.atype = 3
    <3> DEFINE head == <<hello.name>>
               rest == Filler(hello.name + 2)
    <3>1. head \in Seq(Nat) /\ Len(head) = 1 /\ head[1] = hello.name /\ hello.name + 2 \in Nat
      BY <1>1
    <3>2. rest \in Seq(Nat) /\ Len(rest) = hello.name + 2
      BY <1>2, <3>1
    <3>3. address = head \o rest
      BY <2>1 DEF Address
    <3> HIDE DEF head, rest, address
    <3>4. 1 \in 1 .. Len(head)
      BY <3>1
    <3>5. /\ head \o rest \in Seq(Nat) /\ Len(head \o rest) = Len(head) + Len(rest)
          /\ \A i \in 1 .. Len(head) : (head \o rest)[i] = head[i]
      BY <3>1, <3>2, ConcatAt, Zenon
    <3> QED BY <1>1, <2>1, <3>1, <3>2, <3>3, <3>4, <3>5
  <2>2. CASE hello.atype \in {1, 4}
    <3>1. address = Filler(AddressLen(hello.atype)) /\ AddressLen(hello.atype) \in Nat
      BY <2>2 DEF Address, AddressLen
    <3>2. Filler(AddressLen(hello.atype)) \in Seq(Nat)
          /\ Len(Filler(AddressLen(hello.atype))) = AddressLen(hello.atype)
      BY <1>2, <3>1
    <3> QED BY <2>2, <3>1, <3>2
  <2>3. CASE hello.atype \notin {1, 3, 4}
    BY <2>3, EmptySeq DEF Address
  <2> QED BY <2>1, <2>2, <2>3
<1>7. filler \in Seq(Nat) /\ Len(filler) = hello.data
  BY <1>1, <1>2
<1>8. Dialogue(hello, config) = four /\ Content = four \o filler
  BY DEF Dialogue, Content
<1>9. nc \in Nat /\ RequestAt = 2 + no + nc
  BY <1>1 DEF RequestAt
<1> HIDE DEF greeting, credentials, request, address, filler, nc, one, two, three, four
<1>10. one \in Seq(Nat) /\ Len(one) = 2 + no /\ one[2] = no
  <2>1. /\ one \in Seq(Nat) /\ Len(one) = Len(greeting) + no
        /\ \A i \in 1 .. Len(greeting) : one[i] = greeting[i]
    BY <1>1, <1>3, ConcatAt, Zenon DEF one
  <2>2. 2 \in 1 .. Len(greeting)
    BY <1>3
  <2> QED BY <1>3, <2>1, <2>2
<1> HIDE DEF no
<1>11. /\ two \in Seq(Nat) /\ Len(two) = 2 + no + nc /\ two[2] = no
       /\ config.auth => two[2 + no + 2] = 1 /\ two[2 + no + 4] = hello.pass
  <2>1. /\ two \in Seq(Nat) /\ Len(two) = Len(one) + Len(credentials)
        /\ \A i \in 1 .. Len(one) : two[i] = one[i]
        /\ \A i \in 1 .. Len(credentials) : two[Len(one) + i] = credentials[i]
    <3>1. one \in Seq(Nat) /\ credentials \in Seq(Nat)
      BY <1>5, <1>10, Zenon
    <3> QED BY <3>1, ConcatAt, Zenon DEF two
  <2>2. 2 \in 1 .. Len(one)
    BY <1>1, <1>10
  <2>3. config.auth => 2 \in 1 .. Len(credentials) /\ 4 \in 1 .. Len(credentials)
    BY <1>1, <1>5 DEF nc
  <2> QED BY <1>5, <1>10, <2>1, <2>2, <2>3
<1>12. /\ three \in Seq(Nat) /\ Len(three) = RequestAt + 4 /\ three[RequestAt + 4] = hello.atype
       /\ \A i \in 1 .. Len(two) : three[i] = two[i]
  <2>1. /\ three \in Seq(Nat) /\ Len(three) = Len(two) + Len(request)
        /\ \A i \in 1 .. Len(two) : three[i] = two[i]
        /\ \A i \in 1 .. Len(request) : three[Len(two) + i] = request[i]
    <3>1. two \in Seq(Nat) /\ request \in Seq(Nat)
      BY <1>4, <1>11, Zenon
    <3> QED BY <3>1, ConcatAt, Zenon DEF three
  <2>2. 4 \in 1 .. Len(request) /\ Len(two) = RequestAt
    BY <1>4, <1>9, <1>11
  <2> QED BY <1>4, <2>1, <2>2
<1>13. /\ four \in Seq(Nat) /\ Len(four) = RequestAt + 4 + Len(address)
       /\ \A i \in 1 .. Len(three) : four[i] = three[i]
       /\ \A i \in 1 .. Len(address) : four[RequestAt + 4 + i] = address[i]
       /\ Len(address) \in Nat
  <2>1. /\ four \in Seq(Nat) /\ Len(four) = Len(three) + Len(address)
        /\ \A i \in 1 .. Len(three) : four[i] = three[i]
        /\ \A i \in 1 .. Len(address) : four[Len(three) + i] = address[i]
        /\ Len(address) \in Nat
    <3>1. three \in Seq(Nat) /\ address \in Seq(Nat)
      BY <1>6, <1>12, Zenon
    <3> QED BY <3>1, ConcatAt, Zenon DEF four
  <2> QED BY <1>12, <2>1
<1>14. /\ Len(Content) = Len(four) + hello.data
       /\ \A i \in 1 .. Len(four) : Content[i] = four[i]
  <2>1. /\ Len(four \o filler) = Len(four) + Len(filler)
        /\ \A i \in 1 .. Len(four) : (four \o filler)[i] = four[i]
    <3>1. four \in Seq(Nat) /\ filler \in Seq(Nat)
      BY <1>7, <1>13, Zenon
    <3> QED BY <3>1, ConcatAt, Zenon
  <2> QED BY <1>7, <1>8, <2>1
<1>15. \A i \in 1 .. 2 + no + nc : Content[i] = two[i] /\ i \in 1 .. Len(two)
  <2> SUFFICES ASSUME NEW i \in 1 .. 2 + no + nc PROVE Content[i] = two[i] /\ i \in 1 .. Len(two)
    OBVIOUS
  <2>1. i \in 1 .. Len(two) /\ i \in 1 .. Len(three) /\ i \in 1 .. Len(four)
    BY <1>1, <1>9, <1>11, <1>12, <1>13
  <2> QED BY <1>12, <1>13, <1>14, <2>1
<1>16. Content[2] = no
  <2>1. 2 \in 1 .. 2 + no + nc
    BY <1>1, <1>9
  <2> QED BY <1>11, <1>15, <2>1
<1>17. config.auth => Content[2 + no + 2] = 1 /\ Content[4 + no + 2] = hello.pass
  <2> SUFFICES ASSUME config.auth PROVE Content[2 + no + 2] = 1 /\ Content[4 + no + 2] = hello.pass
    OBVIOUS
  <2>1. 2 + no + 2 \in 1 .. 2 + no + nc /\ 2 + no + 4 \in 1 .. 2 + no + nc /\ 4 + no + 2 = 2 + no + 4
    BY <1>1 DEF nc
  <2> QED BY <1>11, <1>15, <2>1
<1>18. Content[RequestAt + 4] = hello.atype
  <2>1. RequestAt + 4 \in 1 .. Len(three) /\ RequestAt + 4 \in 1 .. Len(four)
    BY <1>1, <1>9, <1>12, <1>13
  <2> QED BY <1>12, <1>13, <1>14, <2>1
<1>19. hello.atype = 3 => Content[RequestAt + 5] = hello.name
  <2> SUFFICES ASSUME hello.atype = 3 PROVE Content[RequestAt + 5] = hello.name
    OBVIOUS
  <2>0. 1 \in 1 .. Len(address) /\ Len(address) \in Nat
    <3>1. Len(address) = hello.name + 3 /\ hello.name \in Nat
      BY <1>1, <1>6
    <3> QED BY <3>1
  <2>1. RequestAt + 5 \in 1 .. Len(four) /\ RequestAt + 4 + 1 = RequestAt + 5
    <3> DEFINE r == RequestAt
               l == Len(four)
               a == Len(address)
    <3>1. r \in Nat /\ l = r + 4 + a /\ a \in Nat /\ 1 <= a
      BY <1>1, <1>9, <1>13, <2>0
    <3> HIDE DEF r, l, a
    <3>2. r + 5 \in 1 .. l /\ r + 4 + 1 = r + 5
      BY <3>1
    <3> QED BY <3>2 DEF r, l
  <2> QED BY <1>6, <1>13, <1>14, <2>0, <2>1
<1>20. hello.atype \in {1, 3, 4} => Len(four) = AddressAt + AddressSize
  <2>1. RequestAt \in Nat /\ Len(four) = RequestAt + 4 + Len(address)
    BY <1>1, <1>9, <1>13
  <2>2. CASE hello.atype = 3
    <3>1. Len(address) = hello.name + 3 /\ hello.name \in Nat
      BY <1>1, <1>6, <2>2
    <3>2. AddressAt = RequestAt + 4 + 1 /\ AddressSize = hello.name + 2
      BY <2>2 DEF AddressAt, AddressSize
    <3> QED BY <2>1, <3>1, <3>2
  <2>3. CASE hello.atype \in {1, 4}
    <3>1. Len(address) = AddressLen(hello.atype) /\ AddressLen(hello.atype) \in Nat
      BY <1>6, <2>3 DEF AddressLen
    <3>2. AddressAt = RequestAt + 4 + 0 /\ AddressSize = AddressLen(hello.atype)
      BY <2>3 DEF AddressAt, AddressSize
    <3> QED BY <2>1, <3>1, <3>2
  <2> QED BY <2>2, <2>3
<1> QED BY <1>8, <1>13, <1>14, <1>16, <1>17, <1>18, <1>19, <1>20 DEF no

\* What is on the wire when the dialogue was read is the payload.
LEMMA PayloadIs ==
  ASSUME hello \in Hellos, config \in Configs, hello.socks, wire \in Bytes,
         Len(Dialogue(hello, config)) + Len(wire) = Len(Content),
         \A i \in 1 .. Len(wire) : wire[i] = Len(Dialogue(hello, config)) + i
  PROVE  wire = Payload
<1> DEFINE d == Len(Dialogue(hello, config))
           c == Len(Content)
           S == 1 .. c
<1>1. d \in Nat /\ c \in Nat /\ Len(wire) \in Nat /\ d <= c
  <2>1. d \in Nat
    BY SocksContent, LenProperties
  <2>2. c \in Nat /\ Len(wire) \in Nat
    BY BytesFacts
  <2> QED BY <2>1, <2>2
<1>2. Len(Whole) = c /\ \A i \in 1 .. c : Whole[i] = i
  BY <1>1 DEF Whole
<1> HIDE DEF d, c
<1>3. /\ SubSeq(Whole, d + 1, c) \in Seq(S) /\ Len(SubSeq(Whole, d + 1, c)) = c - d
      /\ \A i \in 1 .. c - d : SubSeq(Whole, d + 1, c)[i] = d + i
  <2>1. \A i \in d + 1 .. c : Whole[i] \in S
    BY <1>1, <1>2
  <2>2. /\ SubSeq(Whole, d + 1, c) \in Seq(S)
        /\ Len(SubSeq(Whole, d + 1, c)) = IF d + 1 <= c THEN c - (d + 1) + 1 ELSE 0
        /\ \A i \in 1 .. c - (d + 1) + 1 : SubSeq(Whole, d + 1, c)[i] = Whole[d + 1 + i - 1]
    <3>1. d + 1 \in Int /\ c \in Int
      BY <1>1
    <3> QED BY <2>1, <3>1, SubSeqProperties
  <2>3. \A i \in 1 .. c - d : d + 1 + i - 1 = d + i /\ d + i \in 1 .. c /\ i \in 1 .. c - (d + 1) + 1
    BY <1>1
  <2> QED BY <1>1, <1>2, <2>2, <2>3
<1>4. wire \in Seq(S) /\ Len(wire) = c - d /\ \A i \in 1 .. c - d : wire[i] = d + i
  BY <1>1 DEF Bytes, c, d
<1>5. wire = SubSeq(Whole, d + 1, c)
  <2> DEFINE t == SubSeq(Whole, d + 1, c)
  <2>1. t \in Seq(S) /\ Len(wire) = Len(t) /\ \A i \in 1 .. Len(wire) : wire[i] = t[i]
    BY <1>3, <1>4
  <2> HIDE DEF t
  <2> QED BY <1>4, <2>1, SeqEqual DEF t
<1> QED BY <1>5 DEF Payload, c, d

\* A read goes on where the last one ended.
LEMMA ReadsOn ==
  ASSUME TypeOK, Data(backed) = <<>>, NEW p \in Nat, ReadFrom(p),
         NEW room \in Nat, NEW n \in ReadSizes(room), Read(n), got' = got \o ReadBytes(n),
         UNCHANGED <<hello, config>>
  PROVE  ReadFrom(p)' /\ backed = None /\ backed' = None /\ (marked = None => marked' = None)
<1>1. /\ hello \in Hellos /\ config \in Configs /\ wire \in Bytes /\ got \in Bytes
      /\ Len(wire) \in Nat /\ Len(got) \in Nat /\ Content' = Content
  BY TypedIs, BytesFacts DEF Buffers, Content
<1>2. backed = None
  <2> SUFFICES ASSUME backed # None PROVE FALSE
    OBVIOUS
  <2>1. n \in {room, 0} \ {0} /\ n <= 0
    BY EmptySeq DEF ReadSizes
  <2> QED BY <2>1
<1>3. n \in Nat /\ n <= Len(wire)
  BY <1>2 DEF ReadSizes
<1>4. /\ ReadBytes(n) = SubSeq(wire, 1, n) /\ wire' = SubSeq(wire, n + 1, Len(wire))
      /\ backed' = None /\ (marked = None => marked' = None)
  BY <1>2 DEF ReadBytes, Read
<1> DEFINE w == Len(wire)
           S == 1 .. Len(Content)
           head == SubSeq(wire, 1, n)
           rest == SubSeq(wire, n + 1, w)
<1>5. wire \in Seq(S) /\ got \in Seq(S) /\ \A i \in 1 .. w : wire[i] \in S
  BY <1>1, ElementOfSeq DEF Bytes
<1>6. head \in Seq(S) /\ Len(head) = n /\ \A i \in 1 .. n : head[i] = wire[i]
  <2>1. \A i \in 1 .. n : wire[i] \in S
    BY <1>1, <1>3, <1>5
  <2>2. /\ head \in Seq(S) /\ Len(head) = IF 1 <= n THEN n - 1 + 1 ELSE 0
        /\ \A i \in 1 .. n - 1 + 1 : head[i] = wire[1 + i - 1]
    <3>1. 1 \in Int /\ n \in Int
      BY <1>3
    <3> HIDE DEF S
    <3> QED BY <2>1, <3>1, SubSeqProperties
  <2>3. n - 1 + 1 = n /\ \A i \in 1 .. n : 1 + i - 1 = i
    BY <1>3
  <2> HIDE DEF head, S
  <2> QED BY <1>3, <2>2, <2>3
<1>7. rest \in Seq(S) /\ Len(rest) = w - n /\ \A i \in 1 .. w - n : rest[i] = wire[n + i]
  <2>1. \A i \in n + 1 .. w : wire[i] \in S
    BY <1>1, <1>3, <1>5
  <2>2. /\ rest \in Seq(S) /\ Len(rest) = IF n + 1 <= w THEN w - (n + 1) + 1 ELSE 0
        /\ \A i \in 1 .. w - (n + 1) + 1 : rest[i] = wire[n + 1 + i - 1]
    <3>1. n + 1 \in Int /\ w \in Int
      BY <1>1, <1>3
    <3> HIDE DEF S, w
    <3> QED BY <2>1, <3>1, SubSeqProperties
  <2>3. w - (n + 1) + 1 = w - n /\ \A i \in 1 .. w - n : n + 1 + i - 1 = n + i
    BY <1>1, <1>3
  <2> HIDE DEF rest, S, w
  <2>4. w \in Nat /\ n <= w
    BY <1>1, <1>3 DEF w
  <2> QED BY <1>3, <2>2, <2>3, <2>4
<1> HIDE DEF head, rest, w, S
<1>8. /\ Len(got') = Len(got) + n
      /\ \A i \in 1 .. Len(got) + n : got'[i] = IF i <= Len(got) THEN got[i] ELSE head[i - Len(got)]
  <2>1. got' = got \o head
    BY <1>4 DEF head
  <2>2. /\ Len(got \o head) = Len(got) + Len(head)
        /\ \A i \in 1 .. Len(got) + Len(head) :
             (got \o head)[i] = IF i <= Len(got) THEN got[i] ELSE head[i - Len(got)]
    BY <1>5, <1>6, ConcatProperties, Zenon
  <2> QED BY <1>6, <2>1, <2>2
<1>9. Len(wire') = w - n /\ \A i \in 1 .. w - n : wire'[i] = wire[n + i]
  BY <1>4, <1>7 DEF rest, w
<1>10. w \in Nat /\ p + Len(got) + w = Len(Content) /\ \A i \in 1 .. w : wire[i] = p + Len(got) + i
  BY <1>1 DEF ReadFrom, w
<1>11. p + Len(got') + Len(wire') = Len(Content')
  <2>1. Len(got') = Len(got) + n /\ Len(wire') = w - n /\ Len(Content') = Len(Content)
    BY <1>1, <1>8, <1>9
  <2>2. p + (Len(got) + n) + (w - n) = p + Len(got) + w
    BY <1>1, <1>3, <1>10
  <2> QED BY <1>10, <2>1, <2>2
<1>12. ASSUME NEW i \in 1 .. Len(got') PROVE got'[i] = p + i
  <2>1. CASE i <= Len(got)
    BY <1>1, <1>3, <1>8, <2>1 DEF ReadFrom
  <2>2. CASE ~(i <= Len(got))
    <3>1. i - Len(got) \in 1 .. n /\ i - Len(got) \in 1 .. w
      BY <1>1, <1>3, <1>8, <2>2 DEF w
    <3>2. got'[i] = wire[i - Len(got)]
      BY <1>6, <1>8, <2>2, <3>1
    <3>3. p + Len(got) + (i - Len(got)) = p + i
      BY <1>1, <1>8
    <3> QED BY <1>10, <3>1, <3>2, <3>3
  <2> QED BY <2>1, <2>2
<1>13. ASSUME NEW i \in 1 .. Len(wire') PROVE wire'[i] = p + Len(got') + i
  <2>1. n + i \in 1 .. w /\ p + Len(got) + (n + i) = p + (Len(got) + n) + i
    BY <1>1, <1>3, <1>9, <1>10
  <2> QED BY <1>8, <1>9, <1>10, <2>1
<1> QED BY <1>2, <1>4, <1>11, <1>12, <1>13 DEF ReadFrom

\* What was read is put aside, and the next stage reads on.
LEMMA NextFrom ==
  ASSUME TypeOK, NEW p \in Nat, ReadFrom(p), NEW q \in Nat, q = p + Len(got),
         got' = <<>>, wire' = wire, UNCHANGED <<hello, config>>
  PROVE  ReadFrom(q)'
<1>1. Len(got) \in Nat /\ Len(wire) \in Nat /\ Content' = Content
  BY TypedIs, BytesFacts DEF Buffers, Content
<1>2. Len(got') = 0
  BY EmptySeq
<1>3. q + Len(got') + Len(wire') = Len(Content')
  BY <1>1, <1>2 DEF ReadFrom
<1>4. \A i \in 1 .. Len(wire') : wire'[i] = q + Len(got') + i
  <2>1. \A i \in 1 .. Len(wire) : wire[i] = q + i
    BY <1>1 DEF ReadFrom
  <2> QED BY <1>1, <1>2, <2>1
<1> QED BY <1>2, <1>3, <1>4 DEF ReadFrom

\* Head5: the head was the first two bytes of a visitor that speaks SOCKS5.
LEMMA HeadRead ==
  ASSUME IInv, TypeOK, told = <<>>, Complete("head"), Byte(1) = 5
  PROVE  hello.socks /\ Byte(2) = Len(hello.offers) /\ ReadFrom(0) /\ Len(got) = 2 /\ Data(backed) = <<>>
<1>1. /\ wire \in Seq(Nat) /\ Buffered(marked) /\ Buffered(backed)
      /\ got = Data(marked) /\ Len(got) + Len(Data(backed)) <= 2 /\ Len(got) = 2
      /\ Data(marked) \o Data(backed) \o wire = Whole
  BY DEF IInv, ReadAhead, NothingLost, Running, Complete, AtTop
<1>2. /\ got \in Seq(Nat) /\ Data(backed) \in Seq(Nat) /\ Len(Data(backed)) = 0
      /\ hello \in Hellos /\ config \in Configs
  BY <1>1, DataType, LenProperties, TypedIs
<1>3. Data(backed) = <<>>
  BY <1>2, EmptySeq
<1>4. Whole = got \o wire
  BY <1>1, <1>2, <1>3, ConcatEmptySeq
<1>5. /\ Len(Whole) = Len(got) + Len(wire)
      /\ \A i \in 1 .. Len(got) : Whole[i] = got[i]
      /\ \A i \in 1 .. Len(wire) : Whole[Len(got) + i] = wire[i]
  <2>1. /\ Len(got \o wire) = Len(got) + Len(wire)
        /\ \A i \in 1 .. Len(got) : (got \o wire)[i] = got[i]
        /\ \A i \in 1 .. Len(wire) : (got \o wire)[Len(got) + i] = wire[i]
    BY <1>1, <1>2, ConcatAt, Zenon
  <2> QED BY <1>4, <2>1
<1>6. Len(Content) \in Nat /\ Len(Whole) = Len(Content) /\ \A i \in 1 .. Len(Content) : Whole[i] = i
  BY <1>2, BytesFacts DEF Whole
<1>7. Len(wire) \in Nat
  BY <1>1, LenProperties
<1>8. \A i \in 1 .. Len(wire) : wire[i] = 2 + i
  <2> SUFFICES ASSUME NEW i \in 1 .. Len(wire) PROVE wire[i] = 2 + i
    OBVIOUS
  <2>1. 2 + i \in 1 .. Len(Content)
    BY <1>1, <1>5, <1>6, <1>7
  <2> QED BY <1>1, <1>5, <1>6, <2>1
<1>9. got[1] = 1 /\ got[2] = 2 /\ 2 \in 1 .. Len(Content) /\ 1 \in 1 .. Len(Content)
  <2>1. 1 \in 1 .. Len(got) /\ 2 \in 1 .. Len(got) /\ 1 \in 1 .. Len(Content) /\ 2 \in 1 .. Len(Content)
    BY <1>1, <1>5, <1>6, <1>7
  <2> QED BY <1>5, <1>6, <2>1
<1>10. \A i \in 1 .. Len(got) : got[i] = 0 + i
  BY <1>1, <1>9
<1>11. ReadFrom(0)
  BY <1>1, <1>5, <1>6, <1>7, <1>8, <1>10 DEF ReadFrom
<1>12. hello.socks
  BY <1>2, <1>9, PlainContent DEF Byte
<1>13. Byte(2) = Len(hello.offers)
  BY <1>2, <1>9, <1>12, SocksContent DEF Byte
<1> QED BY <1>1, <1>3, <1>11, <1>12, <1>13

\* A number below the modulus is its own remainder.
LEMMA SmallMod == ASSUME NEW a \in Nat, NEW m \in Nat, a < m PROVE a % m = a
BY Z3

\* A byte that the handshake looks at, by its place.
LEMMA ByteAt ==
  ASSUME TypeOK, NEW p \in Nat, ReadFrom(p), NEW i \in 1 .. Len(got)
  PROVE  Byte(i) = Content[p + i]
BY DEF Byte, ReadFrom

\* What only depends on the visitor and on the client's wishes.
LEMMA Fixed ==
  ASSUME UNCHANGED <<hello, config>>
  PROVE  /\ Content' = Content /\ Payload' = Payload /\ LongName' = LongName
         /\ RequestAt' = RequestAt /\ AddressAt' = AddressAt /\ AddressSize' = AddressSize
BY DEF Content, Payload, Whole, LongName, RequestAt, AddressAt, AddressSize, AddressLen

\* Places in the dialogue are numbers.
LEMMA Places ==
  ASSUME hello \in Hellos, config \in Configs
  PROVE  /\ Len(hello.offers) \in Nat /\ hello.pass \in Nat /\ hello.name \in Nat
         /\ RequestAt \in Nat /\ AddressAt \in Nat
         /\ RequestAt = IF config.auth THEN 6 + Len(hello.offers) + hello.pass
                                       ELSE 2 + Len(hello.offers)
<1>1. /\ hello.offers \in Seq(Nat) /\ hello.pass \in Nat /\ hello.name \in Nat
      /\ Len(hello.offers) \in Nat
  BY HellosAssumption, LenProperties
<1>2. /\ RequestAt = IF config.auth THEN 6 + Len(hello.offers) + hello.pass
                                     ELSE 2 + Len(hello.offers)
      /\ RequestAt \in Nat
  <2>1. config.auth => RequestAt = 2 + Len(hello.offers) + (4 + hello.pass)
    BY Zenon DEF RequestAt
  <2>2. ~config.auth => RequestAt = 2 + Len(hello.offers) + 0
    BY Zenon DEF RequestAt
  <2> DEFINE o == Len(hello.offers)
             w == hello.pass
             r == RequestAt
  <2>3. o \in Nat /\ w \in Nat
    BY <1>1
  <2>4. (config.auth => r = 2 + o + (4 + w)) /\ (~config.auth => r = 2 + o + 0)
    BY <2>1, <2>2, Zenon
  <2> HIDE DEF o, w, r
  <2>5. config.auth => r = 6 + o + w /\ r \in Nat
    BY <2>3, <2>4
  <2>6. ~config.auth => r = 2 + o /\ r \in Nat
    BY <2>3, <2>4
  <2> QED BY <2>5, <2>6, Zenon DEF o, w, r
<1>3. AddressAt \in Nat
  <2>1. CASE hello.atype = 3
    <3>1. AddressAt = RequestAt + 4 + 1
      BY <2>1 DEF AddressAt
    <3> QED BY <1>2, <3>1
  <2>2. CASE hello.atype # 3
    <3>1. AddressAt = RequestAt + 4 + 0
      BY <2>2 DEF AddressAt
    <3> QED BY <1>2, <3>1
  <2> QED BY <2>1, <2>2
<1> QED BY <1>1, <1>2, <1>3

\* A stage that has read its part is followed by the one that reads from where it ended.
LEMMA StageRead ==
  ASSUME TypeOK, PInv, pc = "socks", stage # "head", Len(got) = need,
         stage \in {"name", "address"} => ~LongName,
         NEW s, NEW m, Expect(s, m), wire' = wire, UNCHANGED <<hello, config>>
  PROVE  \E p, q \in Nat : /\ Part(p) /\ ReadFrom(p) /\ q = p + need /\ ReadFrom(q)'
                           /\ \A i \in 1 .. need : Byte(i) = Content[p + i]
<1>1. PICK p \in Nat : Part(p) /\ ReadFrom(p)
  BY DEF PInv, InStep
<1>2. PICK q \in Nat : q = p + need
  BY TypedIs
<1>3. got' = <<>>
  BY DEF Expect
<1>4. ReadFrom(q)'
  BY <1>1, <1>2, <1>3, NextFrom
<1>5. \A i \in 1 .. need : Byte(i) = Content[p + i]
  BY <1>1, ByteAt
<1> QED BY <1>1, <1>2, <1>4, <1>5

\* The steps that end the handshake, or leave it.
LEMMA LeavesP ==
  ASSUME UNCHANGED <<hello, config>>, pc' \notin {"socks", "routed", "spliced"}
  PROVE  PInv'
BY DEF PInv, PayloadOnly

\* The steps of the handshake that go on to another stage.
LEMMA StagesP ==
  ASSUME IInv, TInv, PInv,
         Head5 \/ AnswerMethods \/ ReadCredentials \/ (CheckCredentials /\ hello.right)
           \/ Request \/ NameLength
  PROVE  PInv'
<1>1. /\ pc = "socks" /\ pc' = "socks" /\ Len(got) = need /\ wire' = wire
      /\ UNCHANGED <<hello, config>> /\ TypeOK /\ hello \in Hellos /\ config \in Configs
      /\ need \in Nat
  BY TypedIs
  DEF TInv, Head5, AnswerMethods, ReadCredentials, AuthStep, CheckCredentials, Request,
      NameLength, Complete, AtTop, DropBuffers, fallbackVars
<1>2. /\ Content' = Content /\ LongName' = LongName
      /\ RequestAt' = RequestAt /\ AddressAt' = AddressAt /\ AddressSize' = AddressSize
  BY <1>1, Fixed
<1>3. /\ Len(hello.offers) \in Nat /\ hello.pass \in Nat /\ hello.name \in Nat
      /\ RequestAt \in Nat /\ AddressAt \in Nat
      /\ RequestAt = IF config.auth THEN 6 + Len(hello.offers) + hello.pass
                                    ELSE 2 + Len(hello.offers)
  BY <1>1, Places
<1>4. ASSUME hello.socks, InStep', NoReadAhead' PROVE PInv'
  BY <1>1, <1>4 DEF PInv, PayloadOnly
<1>5. ASSUME NEW q \in Nat, ReadFrom(q)', Part(q)' PROVE InStep'
  BY <1>5 DEF InStep
<1>6. CASE Head5
  <2>1. /\ hello.socks /\ Byte(2) = Len(hello.offers) /\ ReadFrom(0) /\ Len(got) = 2
        /\ Data(backed) = <<>> /\ Expect("methods", Byte(2)) /\ UNCHANGED <<marked, backed>>
    BY <1>1, <1>6, HeadRead DEF TInv, Granted, Head5, Complete, fallbackVars
  <2>2. got' = <<>> /\ stage' = "methods" /\ need' = Len(hello.offers)
    BY <2>1 DEF Expect
  <2>3. ReadFrom(2)'
    BY <1>1, <2>1, <2>2, NextFrom
  <2>4. Part(2)'
    BY <1>1, <2>2 DEF Part
  <2>5. NoReadAhead'
    BY <2>1, <2>2 DEF NoReadAhead, Data
  <2> QED BY <1>4, <1>5, <2>1, <2>3, <2>4, <2>5
<1> HIDE DEF PInv
<1>7. ASSUME ~Head5 PROVE stage # "head" /\ hello.socks
  BY <1>1, <1>7
  DEF PInv, AnswerMethods, ReadCredentials, AuthStep, CheckCredentials, Request, NameLength, Complete
<1>8. CASE AnswerMethods
  <2>1. stage = "methods" /\ marked' = None /\ backed' = None
    BY <1>8 DEF AnswerMethods, Complete, DropBuffers
  <2>2. hello.socks
    BY <1>1, <2>1 DEF PInv
  <2>3. NoReadAhead'
    BY <2>1, OptionFacts DEF NoReadAhead
  <2>4. PICK s, m : /\ Expect(s, m)
                    /\ \/ config.auth /\ s = "auth_version" /\ m = 2
                       \/ ~config.auth /\ s = "request" /\ m = 4
    BY <1>8 DEF AnswerMethods
  <2>5. PICK p, q \in Nat : Part(p) /\ q = p + need /\ ReadFrom(q)'
    BY <1>1, <2>1, <2>4, StageRead
  <2>6. q = 2 + Len(hello.offers)
    BY <2>1, <2>5 DEF Part
  <2>7. stage' = s /\ need' = m
    BY <2>4 DEF Expect
  <2>8. Part(q)'
    BY <1>1, <1>2, <1>3, <2>4, <2>6, <2>7 DEF Part
  <2> QED BY <1>4, <1>5, <2>2, <2>3, <2>5, <2>8
<1>9. CASE ReadCredentials
  <2>1. /\ stage \in {"auth_version", "auth_user"} /\ UNCHANGED <<marked, backed>>
        /\ \/ stage = "auth_version" /\ Expect("auth_user", Byte(2) + 1)
           \/ stage = "auth_user" /\ Expect("auth_pass", Byte(need))
    BY <1>9 DEF ReadCredentials, AuthStep, Complete, fallbackVars
  <2>2. hello.socks /\ marked = None /\ backed = None
    BY <1>1, <2>1 DEF PInv, NoReadAhead
  <2>3. NoReadAhead'
    BY <2>1, <2>2, OptionFacts DEF NoReadAhead
  <2>4. PICK s, m : Expect(s, m) /\ \/ stage = "auth_version" /\ s = "auth_user" /\ m = Byte(2) + 1
                                    \/ stage = "auth_user" /\ s = "auth_pass" /\ m = Byte(need)
    BY <2>1
  <2>5. PICK p, q \in Nat : /\ Part(p) /\ q = p + need /\ ReadFrom(q)'
                            /\ \A i \in 1 .. need : Byte(i) = Content[p + i]
    BY <1>1, <2>1, <2>4, StageRead
  <2>6. stage' = s /\ need' = m
    BY <2>4 DEF Expect
  <2>7. config.auth /\ need = 2 /\ 2 \in 1 .. need
    BY <2>1, <2>5 DEF Part
  <2>8. CASE stage = "auth_version"
    <3>1. p = 2 + Len(hello.offers) /\ q = 4 + Len(hello.offers)
      BY <1>3, <2>5, <2>8 DEF Part
    <3>2. Byte(2) = 1
      BY <1>1, <2>2, <2>5, <2>7, <3>1, SocksContent
    <3>3. stage' = "auth_user" /\ need' = 2
      BY <2>4, <2>6, <2>8, <3>2
    <3>4. Part(q)'
      BY <1>1, <2>7, <3>1, <3>3 DEF Part
    <3> QED BY <1>4, <1>5, <2>2, <2>3, <2>5, <3>4
  <2>9. CASE stage = "auth_user"
    <3>1. p = 4 + Len(hello.offers) /\ q = 6 + Len(hello.offers)
      BY <1>3, <2>5, <2>9 DEF Part
    <3>2. Byte(2) = hello.pass
      BY <1>1, <2>2, <2>5, <2>7, <3>1, SocksContent
    <3>3. stage' = "auth_pass" /\ need' = hello.pass
      BY <2>4, <2>6, <2>7, <2>9, <3>2
    <3>4. Part(q)'
      BY <1>1, <2>7, <3>1, <3>3 DEF Part
    <3> QED BY <1>4, <1>5, <2>2, <2>3, <2>5, <3>4
  <2> QED BY <2>1, <2>8, <2>9
<1>10. CASE CheckCredentials /\ hello.right
  <2>1. stage = "auth_pass" /\ marked' = None /\ backed' = None /\ Expect("request", 4)
    BY <1>10 DEF CheckCredentials, Complete, DropBuffers
  <2>2. hello.socks
    BY <1>1, <2>1 DEF PInv
  <2>3. NoReadAhead'
    BY <2>1, OptionFacts DEF NoReadAhead
  <2>4. PICK p, q \in Nat : Part(p) /\ q = p + need /\ ReadFrom(q)'
    BY <1>1, <2>1, StageRead
  <2>5. q = RequestAt
    BY <1>3, <2>1, <2>4 DEF Part
  <2>6. Part(q)'
    BY <1>2, <2>1, <2>5 DEF Part, Expect
  <2> QED BY <1>4, <1>5, <2>2, <2>3, <2>4, <2>6
<1>11. CASE Request
  <2>1. /\ stage = "request" /\ UNCHANGED <<marked, backed>> /\ Byte(4) \in {1, 3, 4}
        /\ IF Byte(4) = 3 THEN Expect("name", 1) ELSE Expect("address", AddressLen(Byte(4)))
    BY <1>11 DEF Request, Complete, fallbackVars
  <2>2. hello.socks /\ marked = None /\ backed = None
    BY <1>1, <2>1 DEF PInv, NoReadAhead
  <2>3. NoReadAhead'
    BY <2>1, <2>2, OptionFacts DEF NoReadAhead
  <2>4. PICK s, m : Expect(s, m) /\ \/ Byte(4) = 3 /\ s = "name" /\ m = 1
                                    \/ Byte(4) # 3 /\ s = "address" /\ m = AddressLen(Byte(4))
    BY <2>1
  <2>5. PICK p, q \in Nat : /\ Part(p) /\ q = p + need /\ ReadFrom(q)'
                            /\ \A i \in 1 .. need : Byte(i) = Content[p + i]
    BY <1>1, <2>1, <2>4, StageRead
  <2>6. stage' = s /\ need' = m
    BY <2>4 DEF Expect
  <2>7. p = RequestAt /\ q = RequestAt + 4 /\ need = 4 /\ 4 \in 1 .. need
    BY <1>3, <2>1, <2>5 DEF Part
  <2>8. Byte(4) = hello.atype
    BY <1>1, <2>2, <2>5, <2>7, SocksContent
  <2>9. CASE hello.atype = 3
    <3>1. Part(q)'
      BY <1>1, <1>2, <2>4, <2>6, <2>7, <2>8, <2>9 DEF Part
    <3> QED BY <1>4, <1>5, <2>2, <2>3, <2>5, <3>1
  <2>10. CASE hello.atype # 3
    <3>1. AddressAt = RequestAt + 4 /\ AddressSize = AddressLen(hello.atype)
      BY <1>3, <2>10 DEF AddressAt, AddressSize
    <3>2. Part(q)'
      BY <1>1, <1>2, <2>1, <2>4, <2>6, <2>7, <2>8, <2>10, <3>1 DEF Part
    <3> QED BY <1>4, <1>5, <2>2, <2>3, <2>5, <3>2
  <2> QED BY <2>9, <2>10
<1>12. CASE NameLength
  <2> DEFINE len == (Byte(1) + 2) % ByteMod
  <2>1. /\ stage = "name" /\ UNCHANGED <<marked, backed>>
        /\ Expect(IF len = 1 THEN "name" ELSE "address", len)
    BY <1>12 DEF NameLength, Complete, fallbackVars
  <2> HIDE DEF len
  <2>2. hello.socks /\ marked = None /\ backed = None
    BY <1>1, <2>1 DEF PInv, NoReadAhead
  <2>3. NoReadAhead'
    BY <2>1, <2>2, OptionFacts DEF NoReadAhead
  <2>4. CASE LongName
    <3>1. stage' \in {"name", "address"}
      BY <2>1 DEF Expect
    <3>2. InStep'
      BY <1>2, <2>4, <3>1 DEF InStep
    <3> QED BY <1>4, <2>2, <2>3, <3>2
  <2>5. CASE ~LongName
    <3>1. PICK p, q \in Nat : /\ Part(p) /\ q = p + need /\ ReadFrom(q)'
                              /\ \A i \in 1 .. need : Byte(i) = Content[p + i]
      BY <1>1, <2>1, <2>5, StageRead
    <3>2. hello.atype = 3 /\ p = RequestAt + 4 /\ q = RequestAt + 5 /\ 1 \in 1 .. need /\ p + 1 = RequestAt + 5
      BY <1>3, <2>1, <3>1 DEF Part
    <3>3. Byte(1) = hello.name
      BY <1>1, <2>2, <3>1, <3>2, SocksContent
    <3>4. hello.name + 2 < ByteMod
      BY <1>3, <2>5, <3>2, ByteAssumption DEF LongName
    <3>5. len = hello.name + 2 /\ len # 1
      <4>1. len = (hello.name + 2) % ByteMod
        BY <3>3 DEF len
      <4>2. hello.name + 2 \in Nat /\ hello.name + 2 # 1
        BY <1>3
      <4> QED BY <3>4, <4>1, <4>2, ByteAssumption, SmallMod
    <3>6. stage' = "address" /\ need' = hello.name + 2
      BY <2>1, <3>5 DEF Expect
    <3>7. AddressAt = RequestAt + 5 /\ AddressSize = hello.name + 2
      BY <1>3, <3>2 DEF AddressAt, AddressSize
    <3>8. Part(q)'
      BY <1>1, <1>2, <3>2, <3>6, <3>7 DEF Part
    <3> QED BY <1>4, <1>5, <2>2, <2>3, <3>1, <3>8
  <2> QED BY <2>4, <2>5
<1> QED BY <1>6, <1>8, <1>9, <1>10, <1>11, <1>12

\* RouteConnect: the dialogue is over and was read to its end.
LEMMA RouteP == TInv /\ PInv /\ RouteConnect => PInv'
<1> SUFFICES ASSUME TInv, PInv, RouteConnect PROVE PInv'
  OBVIOUS
<1>1. /\ pc = "socks" /\ stage = "address" /\ pc' = "routed" /\ Len(got) = need /\ wire' = wire
      /\ marked' = None /\ backed' = None
      /\ UNCHANGED <<hello, config>> /\ TypeOK /\ hello \in Hellos /\ config \in Configs
      /\ wire \in Bytes /\ need \in Nat /\ Len(wire) \in Nat
  BY TypedIs, BytesFacts DEF TInv, RouteConnect, Complete, AtTop, DropBuffers, Buffers
<1>2. LongName' = LongName /\ Payload' = Payload
  BY <1>1, Fixed
<1>3. ASSUME ~LongName PROVE wire = Payload
  <2>1. PICK p \in Nat : Part(p) /\ ReadFrom(p)
    BY <1>1, <1>3 DEF PInv, InStep
  <2>2. hello.atype \in {1, 3, 4} /\ p = AddressAt /\ need = AddressSize /\ hello.socks
    BY <1>1, <2>1 DEF Part, PInv
  <2>3. Len(Dialogue(hello, config)) = p + need
    BY <1>1, <2>2, SocksContent
  <2>4. p + need + Len(wire) = Len(Content) /\ \A i \in 1 .. Len(wire) : wire[i] = p + need + i
    BY <1>1, <2>1 DEF ReadFrom
  <2> QED BY <1>1, <2>2, <2>3, <2>4, PayloadIs
<1> QED BY <1>1, <1>2, <1>3 DEF PInv, PayloadOnly

\* The reads of the handshake.
LEMMA ReadsP == TInv /\ PInv /\ Reads => PInv'
<1> SUFFICES ASSUME TInv, PInv, Reads PROVE PInv'
  OBVIOUS
<1>1. /\ TypeOK /\ pc = "socks" /\ UNCHANGED <<hello, config>>
  BY DEF TInv, Reads, ReadSome, ReadNothing, Pend
<1>2. CASE ReadNothing
  BY <1>1, <1>2, LeavesP DEF ReadNothing, End
<1>3. CASE Pend
  <2>1. UNCHANGED <<wire, marked, backed, hello, config, pc, stage, need, got, via, out>>
    BY <1>3 DEF Pend, fallbackVars
  <2>2. Content' = Content /\ LongName' = LongName /\ RequestAt' = RequestAt /\ Payload' = Payload
        /\ AddressAt' = AddressAt /\ AddressSize' = AddressSize
    BY <1>1, Fixed
  <2> QED BY <2>1, <2>2 DEF PInv, InStep, Part, ReadFrom, NoReadAhead, Data, PayloadOnly
<1>4. CASE ReadSome
  <2>1. PICK n \in ReadSizes(Room) : Read(n) /\ got' = got \o ReadBytes(n)
    BY <1>4 DEF ReadSome
  <2>2. Room \in Nat /\ UNCHANGED <<hello, config, pc, stage, need, via, out>>
    <3>1. need \in Nat /\ Len(got) \in Nat /\ Len(got) <= need
      BY <1>1, TypedIs, BytesFacts
    <3> QED BY <1>4, <3>1 DEF ReadSome, Room
  <2>3. /\ LongName' = LongName /\ RequestAt' = RequestAt
        /\ AddressAt' = AddressAt /\ AddressSize' = AddressSize
    BY <1>1, Fixed
  <2>4. CASE stage = "head"
    BY <1>1, <2>2, <2>4 DEF PInv, PayloadOnly
  <2>5. CASE stage # "head"
    <3>1. hello.socks /\ InStep /\ NoReadAhead
      BY <1>1, <2>5 DEF PInv
    <3>2. \A p \in Nat : ReadFrom(p) => ReadFrom(p)'
      BY <1>1, <2>1, <2>2, <3>1, ReadsOn DEF NoReadAhead
    <3>3. \A p \in Nat : Part(p) => Part(p)'
      BY <2>2, <2>3 DEF Part
    <3>4. InStep'
      <4> SUFFICES ASSUME stage' \in {"name", "address"} => ~LongName'
                   PROVE  \E p \in Nat : Part(p)' /\ ReadFrom(p)'
        BY DEF InStep
      <4>1. PICK p \in Nat : Part(p) /\ ReadFrom(p)
        BY <2>2, <2>3, <3>1 DEF InStep
      <4> QED BY <3>2, <3>3, <4>1
    <3>5. NoReadAhead'
      <4>1. CASE stage \in {"name", "address"} /\ LongName
        <5>1. marked = None /\ backed = None
          BY <3>1, <4>1 DEF NoReadAhead
        <5>2. marked' = None /\ backed' = None
          BY <2>1, <5>1 DEF Read
        <5> QED BY <5>2, OptionFacts DEF NoReadAhead
      <4>2. CASE ~(stage \in {"name", "address"} /\ LongName)
        <5>1. PICK p \in Nat : ReadFrom(p)
          BY <3>1, <4>2 DEF InStep
        <5>2. backed' = None /\ (marked = None => marked' = None)
          BY <1>1, <2>1, <2>2, <3>1, <5>1, ReadsOn DEF NoReadAhead
        <5> QED BY <2>2, <3>1, <5>2, OptionFacts DEF NoReadAhead
      <4> QED BY <4>1, <4>2
    <3> QED BY <1>1, <2>2, <3>1, <3>4, <3>5 DEF PInv, PayloadOnly
  <2> QED BY <2>4, <2>5
<1> QED BY <1>2, <1>3, <1>4 DEF Reads

\* Every step.
LEMMA StepP == IInv /\ TInv /\ PInv /\ [Next]_vars => PInv'
<1> SUFFICES ASSUME IInv, TInv, PInv, [Next]_vars PROVE PInv'
  OBVIOUS
<1>1. CASE Select
  <2>1. UNCHANGED <<hello, config>> /\ pc = "select"
    BY <1>1 DEF Select, CallSocks, SkipSocks, Direct, Unknown
  <2>2. CASE CallSocks
    BY <2>1, <2>2 DEF CallSocks, Expect, PInv, PayloadOnly
  <2>3. CASE Direct
    BY <2>1, <2>3 DEF Direct, PInv, PayloadOnly
  <2>4. CASE SkipSocks \/ Unknown
    <3>1. pc' \in {"select", "closed"}
      BY <2>1, <2>4 DEF SkipSocks, Unknown, End
    <3> QED BY <2>1, <3>1, LeavesP
  <2> QED BY <1>1, <2>2, <2>3, <2>4 DEF Select
<1>2. CASE Handshake
  <2>1. CASE Head5 \/ AnswerMethods \/ ReadCredentials \/ (CheckCredentials /\ hello.right)
               \/ Request \/ NameLength
    BY <2>1, StagesP
  <2>2. CASE RouteConnect
    BY <2>2, RouteP
  <2>3. CASE NotSocks \/ (CheckCredentials /\ ~hello.right) \/ Refuse \/ ParseNothing \/ RouteUdp
    <3>1. UNCHANGED <<hello, config>> /\ pc' \in {"select", "failed", "abort", "provider", "finished"}
      BY <2>3 DEF NotSocks, CheckCredentials, Refuse, ParseNothing, RouteUdp, End
    <3> QED BY <3>1, LeavesP
  <2> QED BY <1>2, <2>1, <2>2, <2>3 DEF Handshake
<1>3. CASE Splice
  <2>1. /\ pc = "routed" /\ pc' = "spliced" /\ out' = Data(GivenBack(marked))
        /\ UNCHANGED <<wire, hello, config, via>>
    BY <1>3 DEF Splice
  <2>2. LongName' = LongName /\ Payload' = Payload
    BY <2>1, Fixed
  <2>3. via = "socks" /\ ~LongName => out' = <<>> /\ wire = Payload
    BY <2>1, OptionFacts DEF PInv, GivenBack
  <2> QED BY <2>1, <2>2, <2>3 DEF PInv, PayloadOnly
<1>4. CASE GiveUp
  BY <1>4, LeavesP DEF GiveUp, End
<1>5. CASE VisitorCloses \/ UNCHANGED vars
  <2>1. UNCHANGED <<wire, marked, backed, hello, config, pc, stage, need, got, via, out>>
    BY <1>5 DEF VisitorCloses, vars, fallbackVars, handshakeVars
  <2>2. Content' = Content /\ LongName' = LongName /\ RequestAt' = RequestAt /\ Payload' = Payload
        /\ AddressAt' = AddressAt /\ AddressSize' = AddressSize
    BY <2>1, Fixed
  <2> QED BY <2>1, <2>2 DEF PInv, InStep, Part, ReadFrom, NoReadAhead, Data, PayloadOnly
<1> QED BY <1>1, <1>2, <1>3, <1>4, <1>5, ReadsP DEF Next

\* The destination that a visitor asked for by CONNECT (net/socks/mod.rs) gets what the
\* visitor sent after the dialogue, all of it, and no byte of the dialogue, whatever the
\* reads return and unless the name is longer than a byte can count with its port.
THEOREM DestinationsGetThePayload == Spec => []PayloadOnly
<1>1. Init => PInv
  BY DEF Init, PInv, PayloadOnly
<1>2. IInv /\ TInv /\ PInv /\ [Next]_vars => PInv'
  BY StepP
<1>3. PInv => PayloadOnly
  BY DEF PInv
<1> QED BY <1>1, <1>2, <1>3, Rereadable, Guarded, PTL DEF Spec

=============================================================================
