----------------------------- MODULE YmodemProofs -----------------------------
(***************************************************************************)
(* What an upload promises, for a file of any number of blocks, block      *)
(* numbers modulo any Wrap of at least two, and any number of faults.      *)
(***************************************************************************)
EXTENDS Ymodem, SequenceTheorems, FiniteSetTheorems, TLAPS

Keys == {"c", "1", "CAN", "EOT", "bad", "run"}
Messages == {Block(n) : n \in 1 .. Blocks} \cup {Byte(k) : k \in Keys} \cup {Name, Null}

\* The places where the sender has not yet sent a block.
Opening == {"prompt", "name", "go"}

YmodemTypes ==
  /\ pc \in Steps \cup {"idle", "done", "sent", "failed"}
  /\ blockno \in 0 .. Blocks + 1
  /\ pc \in Opening => blockno = 0
  /\ pc = "data" => blockno \in 1 .. Blocks
  /\ pc \in {"eot", "endgo", "null"} => blockno = Blocks + 1
  /\ crcNak \in BOOLEAN /\ success \in BOOLEAN
  /\ attempt \in 0 .. 2 /\ (pc = "idle" => attempt < 2) /\ (pc # "idle" => attempt > 0)
  /\ toDevice \in Seq(Messages) /\ toHost \in Seq(Answers)
  /\ device \in {"menu", "pressed", "name", "data", "null", "running"}
  /\ stored \in Seq(0 .. Blocks)
  /\ faults \in Nat /\ damaged \in Nat /\ extra \in Nat

-----------------------------------------------------------------------------
(***************************************************************************)
(* Numbers and messages.                                                   *)
(***************************************************************************)
LEMMA Numbers ==
  Blocks \in Nat \ {0} /\ Wrap \in Nat \ {0, 1} /\ MaxPrompts \in Nat /\ MaxFaults \in Nat
BY YmodemAssumption

\* The number on the line tells a block from its neighbours.
LEMMA Neighbours ==
  ASSUME NEW k \in Nat
  PROVE  /\ k % Wrap \in 0 .. Wrap - 1
         /\ (k + 1) % Wrap \in 0 .. Wrap - 1
         /\ (k + 1) % Wrap # k % Wrap
<1> USE Numbers
<1> DEFINE q == k \div Wrap
           r == k % Wrap
<1>1. q \in Nat /\ r \in 0 .. Wrap - 1 /\ k = q * Wrap + r
  OBVIOUS
<1>2. CASE r + 1 < Wrap
  <2>1. (k + 1) % Wrap = r + 1
    BY <1>1, <1>2
  <2> QED
    BY <1>1, <2>1
<1>3. CASE r + 1 = Wrap
  <2>1. k + 1 = (q + 1) * Wrap
    BY <1>1, <1>3
  <2> DEFINE e == (k + 1) % Wrap
             d == (k + 1) \div Wrap
  <2>2. d \in Nat /\ e \in 0 .. Wrap - 1 /\ k + 1 = d * Wrap + e
    OBVIOUS
  <2> HIDE DEF q, r, d, e
  <2>3. (d - (q + 1)) * Wrap = 0 - e
    BY <1>1, <2>1, <2>2
  <2>4. e = 0
    <3>1. CASE d - (q + 1) >= 0
      BY <1>1, <2>2, <2>3, <3>1
    <3>2. CASE d - (q + 1) <= -1
      <4>1. (d - (q + 1)) * Wrap <= -1 * Wrap
        BY <1>1, <2>2, <3>2
      <4> QED
        BY <1>1, <2>2, <2>3, <4>1
    <3> QED
      BY <1>1, <2>2, <3>1, <3>2
  <2>5. (k + 1) % Wrap = 0
    BY <2>4 DEF e
  <2> USE DEF r
  <2> QED
    BY <1>1, <1>3, <2>5
<1> QED
  BY <1>1, <1>2, <1>3

LEMMA MessageKinds ==
  ASSUME NEW m \in Messages
  PROVE  \/ \E n \in 1 .. Blocks : m = Block(n)
         \/ m = Name
         \/ m = Null
         \/ \E k \in Keys : m = Byte(k)
BY DEF Messages

LEMMA BlockFields ==
  ASSUME NEW n \in 1 .. Blocks
  PROVE  /\ Block(n) \in Messages
         /\ Block(n).kind = "block" /\ Block(n).no = n % Wrap /\ Block(n).data = n
         /\ Block(n).no \in 0 .. Wrap - 1
<1>1. n % Wrap \in 0 .. Wrap - 1
  BY Neighbours
<1> QED
  BY <1>1 DEF Block, Messages

LEMMA OtherFields ==
  /\ Name \in Messages /\ Name.kind = "name" /\ Name.no = 0 /\ Name.data = 0
  /\ Null \in Messages /\ Null.kind = "null" /\ Null.no = 0 /\ Null.data = 0
  /\ \A k \in Keys : Byte(k) \in Messages /\ Byte(k).kind = k /\ Byte(k).no = Wrap
BY DEF Name, Null, Byte, Messages

LEMMA KeysIn ==
  /\ Byte("c") \in Messages /\ Byte("1") \in Messages /\ Byte("CAN") \in Messages
  /\ Byte("EOT") \in Messages /\ Byte("bad") \in Messages /\ Byte("run") \in Messages
BY OtherFields DEF Keys

-----------------------------------------------------------------------------
(***************************************************************************)
(* The sequences of messages and of answers.                               *)
(***************************************************************************)
LEMMA TailOf ==
  ASSUME NEW S, NEW s \in Seq(S), s # <<>>
  PROVE  /\ Tail(s) \in Seq(S) /\ Len(Tail(s)) = Len(s) - 1 /\ Len(s) \in Nat \ {0}
         /\ \A i \in 1 .. Len(Tail(s)) : Tail(s)[i] = s[i + 1]
         /\ Head(s) = s[1] /\ Head(s) \in S
BY HeadTailProperties, EmptySeq

LEMMA FrontOf ==
  ASSUME NEW S, NEW s \in Seq(S), s # <<>>
  PROVE  /\ Front(s) \in Seq(S) /\ Len(Front(s)) = Len(s) - 1 /\ Len(s) \in Nat \ {0}
         /\ \A i \in 1 .. Len(s) - 1 : Front(s)[i] = s[i]
<1>1. Len(s) \in Nat \ {0} /\ \A i \in 1 .. Len(s) : s[i] \in S
  BY EmptySeq, LenProperties, ElementOfSeq
<1>2. \A i \in 1 .. Len(s) - 1 : s[i] \in S
  BY <1>1
<1> DEFINE t == SubSeq(s, 1, Len(s) - 1)
<1>3. /\ t \in Seq(S)
      /\ Len(t) = IF 1 <= Len(s) - 1 THEN (Len(s) - 1) - 1 + 1 ELSE 0
      /\ \A i \in 1 .. (Len(s) - 1) - 1 + 1 : t[i] = s[1 + i - 1]
  BY <1>1, <1>2, SubSeqProperties
<1> HIDE DEF t
<1>4. Len(t) = Len(s) - 1
  <2>1. Len(s) \in Nat /\ Len(s) >= 1
    BY <1>1
  <2>2. Len(t) = IF 1 <= Len(s) - 1 THEN (Len(s) - 1) - 1 + 1 ELSE 0
    BY <1>3
  <2> DEFINE n == Len(s)
             k == Len(t)
  <2>3. n \in Nat /\ n >= 1 /\ k = IF 1 <= n - 1 THEN (n - 1) - 1 + 1 ELSE 0
    BY <2>1, <2>2
  <2> HIDE DEF n, k
  <2>4. k = n - 1
    BY <2>3
  <2> QED
    BY <2>4 DEF n, k
<1>5. \A i \in 1 .. Len(s) - 1 : t[i] = s[i]
  <2>1. ASSUME NEW i \in 1 .. Len(s) - 1 PROVE t[i] = s[i]
    <3>1. i \in 1 .. (Len(s) - 1) - 1 + 1 /\ 1 + i - 1 = i
      BY <1>1
    <3> QED
      BY <1>3, <3>1
  <2> QED
    BY <2>1
<1> QED
  BY <1>1, <1>3, <1>4, <1>5 DEF Front, t

LEMMA SingleLast ==
  ASSUME NEW S, NEW s \in Seq(S), s # <<>>, Tail(s) = <<>>
  PROVE  Len(s) = 1
<1> DEFINE n == Len(s)
           k == Len(Tail(s))
<1>1. n \in Nat \ {0} /\ k = n - 1
  BY TailOf
<1>2. k = 0
  <2>1. Len(<<>>) = 0
    OBVIOUS
  <2> QED
    BY <2>1
<1> HIDE DEF n, k
<1>3. n = 1
  BY <1>1, <1>2
<1> QED
  BY <1>3 DEF n

\* One and two characters or packets.
LEMMA Short ==
  ASSUME NEW a, NEW b
  PROVE  /\ Head(<<a>>) = a /\ Tail(<<a>>) = <<>> /\ Front(<<a>>) = <<>>
         /\ Head(<<a, b>>) = a /\ Tail(<<a, b>>) = <<b>> /\ Front(<<a, b>>) = <<a>>
         /\ Append(<<>>, a) = <<a>> /\ Append(<<a>>, b) = <<a, b>>
         /\ <<>> \o <<a>> = <<a>> /\ <<>> \o <<a, b>> = <<a, b>>
         /\ <<a>> \o <<>> = <<a>>
         /\ <<a>> # <<>> /\ <<a, b>> # <<>>
<1>1. Head(<<a>>) = a /\ Head(<<a, b>>) = a
  OBVIOUS
<1>2. Tail(<<a>>) = <<>>
  OBVIOUS
<1>2b. Tail(<<a, b>>) = <<b>>
  OBVIOUS
<1>6. <<a>> # <<>> /\ <<a, b>> # <<>>
  OBVIOUS
<1> DEFINE S == {a, b}
<1>s. <<>> \in Seq(S) /\ <<a>> \in Seq(S) /\ <<a, b>> \in Seq(S)
  OBVIOUS
<1>l. Len(<<a>>) = 1 /\ Len(<<a, b>>) = 2 /\ <<a>>[1] = a /\ <<a, b>>[1] = a /\ <<a, b>>[2] = b
  OBVIOUS
<1> HIDE DEF S
<1>3. Front(<<a>>) = <<>> /\ Front(<<a, b>>) = <<a>>
  <2>0. /\ \A s \in Seq(S) : s # <<>> => Front(s) \in Seq(S) /\ Len(Front(s)) = Len(s) - 1
        /\ \A s \in Seq(S) : s # <<>> => \A i \in 1 .. Len(s) - 1 : Front(s)[i] = s[i]
    BY FrontOf
  <2>1. Front(<<a>>) \in Seq(S) /\ Len(Front(<<a>>)) = 0
    BY <1>s, <1>l, <1>6, <2>0
  <2>2. /\ Front(<<a, b>>) \in Seq(S) /\ Len(Front(<<a, b>>)) = 2 - 1
        /\ \A i \in 1 .. 2 - 1 : Front(<<a, b>>)[i] = <<a, b>>[i]
    BY <1>s, <1>l, <1>6, <2>0
  <2>2b. Len(Front(<<a, b>>)) = 1 /\ Front(<<a, b>>)[1] = a
    BY <1>l, <2>2
  <2>3. Front(<<a, b>>) = <<a>>
    BY <1>s, <1>l, <2>2, <2>2b, SeqEqual
  <2> QED
    BY <2>1, <2>3, EmptySeq
<1>4. Append(<<>>, a) = <<a>> /\ Append(<<a>>, b) = <<a, b>>
  <2>0. a \in S /\ b \in S
    BY DEF S
  <2>1. /\ Append(<<>>, a) \in Seq(S) /\ Len(Append(<<>>, a)) = 1
        /\ Append(<<>>, a)[1] = a
    BY <1>s, <2>0, AppendProperties
  <2>2. /\ Append(<<a>>, b) \in Seq(S) /\ Len(Append(<<a>>, b)) = 2
        /\ Append(<<a>>, b)[1] = a /\ Append(<<a>>, b)[2] = b
    BY <1>s, <2>0, AppendProperties
  <2>3. Append(<<>>, a) = <<a>>
    BY <1>s, <2>1, SeqEqual
  <2>4. Append(<<a>>, b) = <<a, b>>
    <3>1. \A s \in Seq(S), t \in Seq(S) :
              Len(s) = Len(t) /\ (\A i \in 1 .. Len(s) : s[i] = t[i]) => s = t
      BY SeqEqual
    <3>2. \A i \in 1 .. 2 : Append(<<a>>, b)[i] = <<a, b>>[i]
      BY <1>l, <2>2
    <3> HIDE DEF S
    <3> QED
      BY <1>s, <1>l, <2>2, <3>1, <3>2
  <2> QED
    BY <2>3, <2>4
<1>5. <<>> \o <<a>> = <<a>> /\ <<>> \o <<a, b>> = <<a, b>> /\ <<a>> \o <<>> = <<a>>
  OBVIOUS
<1> QED
  BY <1>1, <1>2, <1>2b, <1>3, <1>4, <1>5, <1>6

Only(s, S) == \A i \in 1 .. Len(s) : s[i] \in S

LEMMA OnlyTail ==
  ASSUME NEW S, NEW T, NEW s \in Seq(T), Only(s, S), s # <<>>
  PROVE  Only(Tail(s), S) /\ Head(s) \in S
BY TailOf DEF Only

LEMMA OnlyAppend ==
  ASSUME NEW S, NEW T, NEW s \in Seq(T), Only(s, S), NEW m \in T, m \in S
  PROVE  Only(Append(s, m), S)
<1>1. /\ Len(Append(s, m)) = Len(s) + 1 /\ Len(s) \in Nat
      /\ \A i \in 1 .. Len(s) : Append(s, m)[i] = s[i]
      /\ Append(s, m)[Len(s) + 1] = m
  BY AppendProperties, LenProperties
<1> QED
  BY <1>1 DEF Only

LEMMA OnlyCons ==
  ASSUME NEW S, NEW T, NEW s \in Seq(T), Only(s, S), NEW m \in T, m \in S
  PROVE  Only(<<m>> \o s, S)
<1>1. /\ Len(<<m>> \o s) = 1 + Len(s) /\ Len(s) \in Nat
      /\ \A i \in 1 .. 1 + Len(s) : (<<m>> \o s)[i] = IF i <= 1 THEN m ELSE s[i - 1]
  <2>1. <<m>> \in Seq(T) /\ Len(<<m>>) = 1 /\ <<m>>[1] = m
    OBVIOUS
  <2> QED
    BY <2>1, ConcatProperties, LenProperties
<1> QED
  BY <1>1 DEF Only

LEMMA OnlyPair ==
  ASSUME NEW S, NEW T, NEW s \in Seq(T), Only(s, S), NEW a \in T, NEW b \in T, a \in S, b \in S
  PROVE  Only(s \o <<a, b>>, S)
<1>1. /\ Len(s \o <<a, b>>) = Len(s) + 2 /\ Len(s) \in Nat
      /\ \A i \in 1 .. Len(s) + 2 :
            (s \o <<a, b>>)[i] = IF i <= Len(s) THEN s[i] ELSE <<a, b>>[i - Len(s)]
  <2>1. <<a, b>> \in Seq(T) /\ Len(<<a, b>>) = 2
    OBVIOUS
  <2> QED
    BY <2>1, ConcatProperties, LenProperties
<1> QED
  BY <1>1 DEF Only

LEMMA OnlyMore ==
  ASSUME NEW S, NEW R, S \subseteq R, NEW s, Only(s, S)
  PROVE  Only(s, R)
BY DEF Only

LEMMA OnlyEmpty == \A S : Only(<<>>, S)
BY DEF Only

-----------------------------------------------------------------------------
(***************************************************************************)
(* What each step leaves alone, and what the device makes of a message.    *)
(***************************************************************************)
LEMMA DeviceFrame ==
  ASSUME YmodemTypes, Device
  PROVE  /\ toDevice # <<>> /\ toDevice' = Tail(toDevice)
         /\ Head(toDevice) \in Messages /\ toDevice' \in Seq(Messages)
         /\ pc' = pc /\ blockno' = blockno /\ crcNak' = crcNak /\ attempt' = attempt
         /\ success' = success /\ prompts' = prompts
         /\ faults' = faults /\ damaged' = damaged /\ extra' = extra
BY TailOf DEF YmodemTypes, Device, sender, line

LEMMA HearsInMenu ==
  ASSUME YmodemTypes, Device, NEW m, m = Head(toDevice),
         device \in {"menu", "pressed", "running"}
  PROVE  /\ stored' = stored /\ toHost' = toHost
         /\ device = "menu" => device' = IF m.kind = "c" THEN "pressed"
                                         ELSE IF m.kind = "run" THEN "running" ELSE "menu"
         /\ device = "pressed" => device' = IF m.kind = "1" THEN "name" ELSE "menu"
         /\ device = "running" => device' = "running"
<1>1. InMenu(m)
  BY DEF Device, InTransfer
<1>2. toHost \o <<>> = toHost
  BY ConcatEmptySeq DEF YmodemTypes
<1> QED
  BY <1>1, <1>2 DEF InMenu, Answer

LEMMA HearsKey ==
  ASSUME YmodemTypes, Device, NEW k \in Keys, Head(toDevice) = Byte(k),
         device \in {"name", "data", "null"}
  PROVE  /\ stored' = stored
         /\ k = "CAN" => device' = "menu" /\ toHost' = toHost
         /\ k = "bad" => device' = device /\ toHost' = toHost \o <<"NAK">>
         /\ k \in {"c", "1", "run"} => device' = device /\ toHost' = toHost
         /\ k = "EOT" /\ device = "name" => device' = device /\ toHost' = toHost
         /\ k = "EOT" /\ device \in {"data", "null"} =>
               device' = "null" /\ toHost' = toHost \o <<"ACK", "CRC">>
<1> DEFINE m == Byte(k)
<1>1. InTransfer(m)
  BY DEF Device, InMenu
<1>2. toHost \o <<>> = toHost
  BY ConcatEmptySeq DEF YmodemTypes
<1>3. m.kind = k /\ m.no = Wrap /\ m # Name /\ m # Null
  BY OtherFields DEF Keys
<1>4. Expected \in 0 .. Wrap - 1 /\ Previous \in 0 .. Wrap - 1
  BY LenProperties, Neighbours DEF YmodemTypes, Expected, Previous
<1>5. m.no # Expected /\ m.no # Previous /\ m.no \notin 0 .. Wrap - 1
  BY <1>3, <1>4, Numbers
<1> HIDE DEF m
<1> QED
  BY <1>1, <1>2, <1>3, <1>4, <1>5 DEF InTransfer, Answer, Ignore, Keys

LEMMA HearsName ==
  ASSUME YmodemTypes, Device, Head(toDevice) = Name, device \in {"name", "data", "null"},
         device = "data" => stored = <<>>
  PROVE  /\ device \in {"name", "data"} =>
               /\ device' = "data" /\ stored' = <<>>
               /\ toHost' = toHost \o <<"ACK", "CRC">>
         /\ device = "null" => device' = device /\ stored' = stored /\ toHost' = toHost
<1>1. InTransfer(Name)
  BY DEF Device, InMenu
<1>2. toHost \o <<>> = toHost
  BY ConcatEmptySeq DEF YmodemTypes
<1>3. Name.kind = "name" /\ Name.no = 0 /\ Name # Null
  BY OtherFields
<1>4. CASE device = "data"
  <2>1. Expected # 0
    <3>1. Len(stored) = 0
      BY <1>4
    <3> QED
      BY <3>1, Numbers DEF Expected
  <2>2. stored = <<>>
    BY <1>4
  <2>3. /\ Name.kind # "CAN" /\ Name.kind # "bad" /\ device # "name"
        /\ Name.kind # "EOT" /\ device = "data" /\ stored = <<>>
        /\ Name.no # Expected /\ Name.no = Previous
    <3>1. Previous = 0
      BY <2>2, Numbers DEF Previous
    <3> QED
      BY <1>3, <1>4, <2>1, <2>2, <3>1
  <2>4. device' = "data" /\ stored' = stored /\ toHost' = toHost \o <<"ACK", "CRC">>
    BY ONLY <1>1, <2>3 DEF InTransfer, Answer
  <2> QED
    BY <1>4, <2>2, <2>4
<1>5. CASE device = "name"
  BY <1>1, <1>3, <1>5 DEF InTransfer, Answer, Ignore
<1>6. CASE device = "null"
  BY <1>1, <1>2, <1>3, <1>6 DEF InTransfer, Answer, Ignore
<1> QED
  BY <1>4, <1>5, <1>6

LEMMA HearsBlock ==
  ASSUME YmodemTypes, Device, NEW n \in 1 .. Blocks, Head(toDevice) = Block(n),
         device \in {"name", "data", "null"}
  PROVE  /\ device \in {"name", "null"} => device' = device /\ stored' = stored /\ toHost' = toHost
         /\ device = "data" /\ n % Wrap = Expected =>
               device' = "data" /\ stored' = Append(stored, n) /\ toHost' = toHost \o <<"ACK">>
         /\ device = "data" /\ n % Wrap = Previous =>
               device' = "data" /\ stored' = stored /\ toHost' = toHost \o <<"ACK">>
         /\ device = "data" /\ n % Wrap # Expected /\ n % Wrap # Previous =>
               device' = "menu" /\ stored' = stored /\ toHost' = toHost \o <<"CAN">>
<1> DEFINE m == Block(n)
<1>1. InTransfer(m)
  BY DEF Device, InMenu
<1>2. toHost \o <<>> = toHost
  BY ConcatEmptySeq DEF YmodemTypes
<1>3. m.kind = "block" /\ m.no = n % Wrap /\ m.no \in 0 .. Wrap - 1 /\ m.data = n /\ m # Name /\ m # Null
  BY BlockFields, OtherFields
<1>4. Expected # Previous
  BY LenProperties, Neighbours DEF YmodemTypes, Expected, Previous
<1> HIDE DEF m
<1>5. CASE device \in {"name", "null"}
  BY <1>1, <1>2, <1>3, <1>5 DEF InTransfer, Answer, Ignore
<1>6. CASE device = "data"
  BY <1>1, <1>2, <1>3, <1>4, <1>6 DEF InTransfer, Answer, Ignore
<1> QED
  BY <1>5, <1>6

LEMMA HearsNull ==
  ASSUME YmodemTypes, Device, Head(toDevice) = Null, device \in {"name", "data", "null"}
  PROVE  /\ device = "name" => device' = device /\ stored' = stored /\ toHost' = toHost
         /\ device = "null" => device' = "menu" /\ stored' = stored /\ toHost' = toHost \o <<"ACK">>
         /\ device = "data" /\ Expected = 0 =>
               device' = "data" /\ stored' = Append(stored, 0) /\ toHost' = toHost \o <<"ACK">>
         /\ device = "data" /\ Previous = 0 =>
               device' = "data" /\ stored' = stored /\ toHost' = toHost \o <<"ACK">>
         /\ device = "data" /\ 0 \notin {Expected, Previous} =>
               device' = "menu" /\ stored' = stored /\ toHost' = toHost \o <<"CAN">>
<1>1. InTransfer(Null)
  BY DEF Device, InMenu
<1>2. toHost \o <<>> = toHost
  BY ConcatEmptySeq DEF YmodemTypes
<1>3. Null.kind = "null" /\ Null.no = 0 /\ Null.data = 0 /\ Name # Null
  BY OtherFields
<1>4. Expected # Previous
  BY LenProperties, Neighbours DEF YmodemTypes, Expected, Previous
<1>5. CASE device \in {"name", "null"}
  BY <1>1, <1>2, <1>3, <1>5 DEF InTransfer, Answer, Ignore
<1>6. CASE device = "data"
  BY <1>1, <1>2, <1>3, <1>4, <1>6, Numbers DEF InTransfer, Answer, Ignore
<1> QED
  BY <1>5, <1>6

-----------------------------------------------------------------------------
(***************************************************************************)
(* Types.                                                                  *)
(***************************************************************************)
LEMMA InitTypes == Init => YmodemTypes
<1>1. <<>> \in Seq(Messages) /\ <<>> \in Seq(Answers) /\ <<>> \in Seq(0 .. Blocks)
  BY EmptySeq
<1>2. Init => crcNak \in BOOLEAN /\ success \in BOOLEAN
  BY DEF Init
<1> QED
  BY <1>1, <1>2, Numbers DEF Init, YmodemTypes, Opening, Steps

\* What the sender has read, and what is left to read.
LEMMA Reads ==
  ASSUME YmodemTypes, NEW ch, Getchar(ch)
  PROVE  /\ \/ toHost # <<>> /\ ch = Head(toHost) /\ toHost' = Tail(toHost)
               /\ ch \in Answers /\ extra' = extra /\ faults' = faults /\ damaged' = damaged
            \/ toHost = <<>> /\ ch = TimedOut /\ toHost' = toHost /\ damaged' = damaged
               /\ \/ toDevice = <<>> /\ extra' = extra /\ faults' = faults
                  \/ extra' = extra + 1 /\ faults' = faults + 1
         /\ toHost' \in Seq(Answers)
         /\ faults' \in Nat /\ damaged' \in Nat /\ extra' \in Nat
<1>1. CASE toHost # <<>>
  BY <1>1, TailOf DEF Getchar, line, YmodemTypes
<1>2. CASE toHost = <<>>
  BY <1>2 DEF Getchar, line, YmodemTypes, Late
<1> QED
  BY <1>1, <1>2

\* The sender sends at most one message, or two CAN.
LEMMA Sends ==
  ASSUME YmodemTypes
  PROVE  /\ \A m \in Messages : Append(toDevice, m) \in Seq(Messages)
         /\ \A a, b \in Messages : toDevice \o <<a, b>> \in Seq(Messages)
<1>1. toDevice \in Seq(Messages)
  BY DEF YmodemTypes
<1>2. ASSUME NEW a \in Messages, NEW b \in Messages
      PROVE  toDevice \o <<a, b>> \in Seq(Messages)
  <2>1. <<a, b>> \in Seq(Messages)
    OBVIOUS
  <2> QED
    BY <1>1, <2>1, ConcatProperties
<1> QED
  BY <1>1, <1>2, AppendProperties

LEMMA SenderTypes == YmodemTypes /\ Sender => YmodemTypes'
<1> SUFFICES ASSUME YmodemTypes, Sender PROVE YmodemTypes'
  OBVIOUS
<1> USE DEF YmodemTypes, Opening, Steps
<1>1. PICK ch \in Answers \cup {TimedOut} :
        /\ Getchar(ch)
        /\ \/ Prompt(ch) \/ NameAnswer(ch) \/ Go(ch) \/ DataAnswer(ch)
           \/ EotAnswer(ch) \/ EndGo(ch) \/ NullAnswer(ch)
        /\ UNCHANGED <<attempt, success, bootloader>>
  BY DEF Sender
<1>2. attempt' = attempt /\ success' = success /\ device' = device /\ stored' = stored
  BY <1>1 DEF bootloader
<1>3. /\ toHost' \in Seq(Answers)
      /\ faults' \in Nat /\ damaged' \in Nat /\ extra' \in Nat
  BY <1>1, Reads
<1> DEFINE R == /\ pc' \in Steps \cup {"idle", "done", "sent", "failed"}
                /\ pc' # "idle"
                /\ blockno' \in 0 .. Blocks + 1
                /\ pc' \in Opening => blockno' = 0
                /\ pc' = "data" => blockno' \in 1 .. Blocks
                /\ pc' \in {"eot", "endgo", "null"} => blockno' = Blocks + 1
           Q == pc # "idle" /\ toDevice' \in Seq(Messages) /\ crcNak' \in BOOLEAN
<1>4. Name \in Messages /\ Null \in Messages /\ Byte("EOT") \in Messages /\ Byte("CAN") \in Messages
  BY KeysIn, OtherFields
<1>5. pc = "data" => Block(blockno) \in Messages
  BY BlockFields
<1>6. pc = "data" /\ blockno < Blocks => Block(blockno + 1) \in Messages
  BY BlockFields, Numbers
<1>7. Block(1) \in Messages
  BY BlockFields, Numbers
<1> USE Numbers
<1>8. CASE Prompt(ch)
  <2>1. R
    BY <1>8 DEF Prompt, SendName, Fail
  <2>2. Q
    BY <1>4, <1>8, Sends DEF Prompt, SendName, Send, Fail
  <2> QED
    BY <1>2, <1>3, <2>1, <2>2
<1>9. CASE NameAnswer(ch)
  <2>1. R
    BY <1>9 DEF NameAnswer, SendName
  <2>2. Q
    BY <1>4, <1>9, Sends DEF NameAnswer, SendName, Send
  <2> QED
    BY <1>2, <1>3, <2>1, <2>2
<1>10. CASE Go(ch)
  <2>1. R
    BY <1>10 DEF Go, SendName
  <2>2. Q
    BY <1>4, <1>7, <1>10, Sends DEF Go, SendName, Send
  <2> QED
    BY <1>2, <1>3, <2>1, <2>2
<1>11. CASE DataAnswer(ch)
  <2>1. R
    BY <1>11 DEF DataAnswer, Advance, Fail
  <2>2. Q
    BY <1>4, <1>5, <1>6, <1>11, Sends DEF DataAnswer, Advance, Send, Fail
  <2> QED
    BY <1>2, <1>3, <2>1, <2>2
<1>12. CASE EotAnswer(ch)
  <2>1. R
    BY <1>12 DEF EotAnswer, Fail
  <2>2. Q
    BY <1>4, <1>12, Sends DEF EotAnswer, Send, Fail
  <2> QED
    BY <1>2, <1>3, <2>1, <2>2
<1>13. CASE EndGo(ch)
  <2>1. R
    BY <1>13 DEF EndGo, Fail
  <2>2. Q
    BY <1>4, <1>13, Sends DEF EndGo, Send, Fail
  <2> QED
    BY <1>2, <1>3, <2>1, <2>2
<1>14. CASE NullAnswer(ch)
  <2>1. R
    BY <1>14 DEF NullAnswer, Fail
  <2>2. Q
    BY <1>4, <1>14, Sends DEF NullAnswer, Send, Fail
  <2> QED
    BY <1>2, <1>3, <2>1, <2>2
<1> QED
  BY <1>1, <1>8, <1>9, <1>10, <1>11, <1>12, <1>13, <1>14

LEMMA AnswerTypes ==
  ASSUME YmodemTypes, NEW s \in Seq(Answers)
  PROVE  toHost \o s \in Seq(Answers)
BY ConcatProperties DEF YmodemTypes

\* Everything the device can answer.
LEMMA DeviceAnswers ==
  ASSUME YmodemTypes, Device
  PROVE  /\ device' \in {"menu", "pressed", "name", "data", "null", "running"}
         /\ stored' \in Seq(0 .. Blocks)
         /\ toHost' \in Seq(Answers)
<1> DEFINE m == Head(toDevice)
<1>1. m \in Messages
  BY DeviceFrame
<1>2. m.data \in 0 .. Blocks \/ m.no = Wrap
  BY <1>1, MessageKinds, BlockFields, OtherFields, Numbers
<1>3. toHost \in Seq(Answers) /\ stored \in Seq(0 .. Blocks) /\ <<>> \in Seq(0 .. Blocks)
  BY EmptySeq DEF YmodemTypes
<1>4. CASE InMenu(m)
  <2>1. toHost \o <<>> = toHost
    BY <1>3, ConcatEmptySeq
  <2> QED
    BY <1>3, <1>4, <2>1 DEF InMenu, Answer
<1>5. CASE InTransfer(m)
  <2>1. /\ toHost \o <<>> \in Seq(Answers) /\ toHost \o <<"ACK">> \in Seq(Answers)
        /\ toHost \o <<"NAK">> \in Seq(Answers) /\ toHost \o <<"CAN">> \in Seq(Answers)
        /\ toHost \o <<"ACK", "CRC">> \in Seq(Answers)
    <3>1. /\ <<>> \in Seq(Answers) /\ <<"ACK">> \in Seq(Answers) /\ <<"NAK">> \in Seq(Answers)
          /\ <<"CAN">> \in Seq(Answers) /\ <<"ACK", "CRC">> \in Seq(Answers)
      BY DEF Answers
    <3> QED
      BY <3>1, AnswerTypes
  <2>2. m.no = Expected => Append(stored, m.data) \in Seq(0 .. Blocks)
    <3>1. Expected # Wrap
      <4>1. Len(stored) \in Nat
        BY <1>3, LenProperties
      <4>2. Expected \in 0 .. Wrap - 1
        BY <4>1, Neighbours DEF Expected
      <4> QED
        BY <4>2, Numbers
    <3> QED
      BY <1>2, <1>3, <3>1, AppendProperties
  <2> HIDE DEF m
  <2> QED
    BY <1>3, <1>5, <2>1, <2>2 DEF InTransfer, Answer, Ignore
<1> QED
  BY <1>4, <1>5 DEF Device

LEMMA DeviceTypes == YmodemTypes /\ Device => YmodemTypes'
<1> SUFFICES ASSUME YmodemTypes, Device PROVE YmodemTypes'
  OBVIOUS
<1> QED
  BY DeviceFrame, DeviceAnswers DEF YmodemTypes

\* What a fault does to the line.
LEMMA FaultFrame ==
  ASSUME YmodemTypes, Fault
  PROVE  /\ pc' = pc /\ blockno' = blockno /\ crcNak' = crcNak /\ attempt' = attempt
         /\ success' = success /\ device' = device /\ stored' = stored /\ prompts' = prompts
         /\ faults' = faults + 1
         /\ \/ /\ toDevice # <<>> /\ damaged' = damaged + 1 /\ extra' = extra /\ toHost' = toHost
               /\ toDevice' = Tail(toDevice) \/ toDevice' = <<Byte("bad")>> \o Tail(toDevice)
            \/ /\ toHost # <<>> /\ damaged' = damaged /\ extra' = extra /\ toDevice' = toDevice
               /\ toHost' = Front(toHost) \/ toHost' = Append(Front(toHost), "noise")
            \/ /\ damaged' = damaged /\ extra' = extra + 1 /\ toDevice' = toDevice
               /\ toHost' = Append(toHost, "noise")
BY DEF Fault, sender, bootloader

LEMMA FaultTypes == YmodemTypes /\ Fault => YmodemTypes'
<1> SUFFICES ASSUME YmodemTypes, Fault PROVE YmodemTypes'
  OBVIOUS
<1>1. toDevice' \in Seq(Messages)
  <2>1. ASSUME toDevice # <<>>
        PROVE  Tail(toDevice) \in Seq(Messages) /\ <<Byte("bad")>> \o Tail(toDevice) \in Seq(Messages)
    <3>1. Tail(toDevice) \in Seq(Messages)
      BY <2>1, TailOf DEF YmodemTypes
    <3>2. <<Byte("bad")>> \in Seq(Messages)
      BY KeysIn
    <3> QED
      BY <3>1, <3>2, ConcatProperties
  <2> QED
    BY <2>1, FaultFrame DEF YmodemTypes
<1>2. toHost' \in Seq(Answers)
  <2>1. \A s \in Seq(Answers) : Append(s, "noise") \in Seq(Answers)
    BY AppendProperties DEF Answers
  <2>2. toHost # <<>> => Front(toHost) \in Seq(Answers)
    BY FrontOf DEF YmodemTypes
  <2> QED
    BY <2>1, <2>2, FaultFrame DEF YmodemTypes
<1> QED
  BY <1>1, <1>2, FaultFrame DEF YmodemTypes

LEMMA StartTypes == YmodemTypes /\ Start => YmodemTypes'
<1> SUFFICES ASSUME YmodemTypes, Start PROVE YmodemTypes'
  OBVIOUS
<1>1. toDevice' \in Seq(Messages)
  BY Sends, KeysIn DEF Start
<1>2. toHost' \in Seq(Answers)
  BY EmptySeq DEF Start
<1> QED
  BY <1>1, <1>2, Numbers DEF Start, YmodemTypes, line, Steps, Opening

LEMMA ReturnTypes == YmodemTypes /\ Return => YmodemTypes'
<1> SUFFICES ASSUME YmodemTypes, Return PROVE YmodemTypes'
  OBVIOUS
<1>1. toDevice' \in Seq(Messages)
  BY Sends, KeysIn DEF Return, Send, YmodemTypes
<1> QED
  BY <1>1 DEF Return, YmodemTypes, line, bootloader, Steps, Opening

LEMMA PromptTypes == YmodemTypes /\ DevicePrompt => YmodemTypes'
<1> SUFFICES ASSUME YmodemTypes, DevicePrompt PROVE YmodemTypes'
  OBVIOUS
<1>1. toHost' \in Seq(Answers)
  BY AppendProperties DEF DevicePrompt, YmodemTypes, Answers
<1> QED
  BY <1>1 DEF DevicePrompt, YmodemTypes, sender

LEMMA TypesStep == YmodemTypes /\ [Next]_vars => YmodemTypes'
<1> SUFFICES ASSUME YmodemTypes, [Next]_vars PROVE YmodemTypes'
  OBVIOUS
<1>1. CASE GiveUp
  BY <1>1 DEF GiveUp, YmodemTypes, sender, line
<1>2. CASE UNCHANGED vars
  BY <1>2 DEF vars, YmodemTypes, sender, line, bootloader
<1> QED
  BY <1>1, <1>2, StartTypes, SenderTypes, ReturnTypes, DeviceTypes, PromptTypes, FaultTypes
     DEF Next, Done

\* The types of the upload's state.
THEOREM UploadTyped == Spec => []YmodemTypes
<1>1. Init => YmodemTypes
  BY InitTypes
<1>2. YmodemTypes /\ [Next]_vars => YmodemTypes'
  BY TypesStep
<1> QED
  BY <1>1, <1>2, PTL DEF Spec

-----------------------------------------------------------------------------
(***************************************************************************)
(* Lockstep: as long as the sender reads no stray answer, it and the       *)
(* device are at the same packet.                                          *)
(***************************************************************************)
\* What may be left over of an attempt that ended before packet 0 arrived.
Junk == {Byte("c"), Byte("1"), Byte("CAN"), Byte("bad")}
Openers == Junk \cup {Name}
Rests == {Byte("CAN"), Byte("bad")}
Garbled == {"NAK", "noise"}

NameLast(s) == /\ Len(s) > 0 /\ s[Len(s)] = Name
               /\ \A i \in 1 .. Len(s) - 1 : s[i] \in Junk
OneName(s) == Only(s, Junk) \/ NameLast(s)

\* At most the one packet p is under way, or its answer.
Under(p) == toHost = <<>> /\ toDevice \in {<<>>, <<p>>, <<Byte("bad")>>}
Heard(S) == toDevice = <<>> /\ toHost \in S
Unheard == {<<"NAK">>, <<"noise">>}
Invited == {<<"ACK">>, <<"ACK", "CRC">>, <<"ACK", "noise">>}

AtIdle == /\ attempt = 0 => device = "menu" /\ toDevice = <<>>
          /\ Only(toDevice, Rests) /\ device # "running"
\* Of the keys of the first attempt no more are left than the device waits for.
FirstKeys ==
  /\ device \in {"menu", "pressed", "name"}
  /\ Len(toDevice) <= 2
  /\ device = "pressed" => Len(toDevice) <= 1
  /\ device = "name" => toDevice = <<>>
  /\ toHost # <<>> => toDevice = <<>> /\ Len(toHost) = 1
AtPrompt ==
  /\ crcNak = TRUE /\ Only(toDevice, Junk) /\ device # "running"
  /\ \/ toHost = <<>>
     \/ toHost # <<>> /\ Head(toHost) \in Garbled
     \/ /\ toHost # <<>> /\ Head(toHost) = "CRC" /\ Only(Tail(toHost), Garbled)
        /\ device \in {"menu", "pressed", "name"}
  /\ attempt = 1 => FirstKeys
AtName ==
  /\ crcNak = TRUE /\ device \in {"menu", "pressed", "name", "data"}
  /\ device = "data" => stored = <<>>
  /\ \/ OneName(toDevice) /\ (toHost = <<>> \/ (toHost # <<>> /\ Head(toHost) \in Garbled))
     \/ /\ Heard(Invited) /\ device = "data"
        /\ faults = 0 => toHost = <<"ACK", "CRC">>
  /\ attempt = 1 => Len(toDevice) <= 1 /\ (toHost # <<>> => toDevice = <<>>)
AtGo ==
  /\ crcNak = TRUE /\ device = "data" /\ stored = <<>>
  /\ Heard({<<>>, <<"CRC">>, <<"noise">>})
  /\ faults = 0 => toHost = <<"CRC">>
AtData ==
  /\ device = "data" /\ (Len(stored) = blockno - 1 \/ Len(stored) = blockno)
  /\ \/ Under(Block(blockno))
     \/ Heard({<<"ACK">>}) /\ Len(stored) = blockno
     \/ Heard(Unheard)
  /\ faults = 0 => \/ toDevice = <<Block(blockno)>> /\ Len(stored) = blockno - 1
                   \/ toHost = <<"ACK">>
AtEot ==
  /\ Len(stored) = Blocks /\ device \in {"data", "null"}
  /\ \/ Under(Byte("EOT"))
     \/ Heard(Invited) /\ device = "null"
     \/ Heard(Unheard)
  /\ faults = 0 => toDevice = <<Byte("EOT")>> \/ toHost = <<"ACK", "CRC">>
AtEndgo ==
  /\ Len(stored) = Blocks /\ device = "null"
  /\ Heard({<<>>, <<"CRC">>, <<"noise">>})
  /\ faults = 0 => toHost = <<"CRC">>
AtNull ==
  /\ Len(stored) = Blocks /\ device \in {"null", "menu"}
  /\ \/ Under(Null)
     \/ Heard({<<"ACK">>}) /\ device = "menu"
     \/ Heard(Unheard)
  /\ faults = 0 => (toDevice = <<Null>> /\ device = "null") \/ toHost = <<"ACK">>
AtSent == Len(stored) = Blocks /\ device = "menu" /\ toDevice = <<>>
Over ==
  /\ device # "running" /\ Only(toDevice, Openers)
  /\ device = "data" => stored = <<>> \/ Only(toDevice, Junk)
AtFailed ==
  /\ Over
  /\ attempt = 1 => Only(toDevice, Rests)
  /\ blockno > 0 => faults > 0
Finished ==
  /\ Len(stored) = Blocks /\ device \in {"menu", "running"}
  /\ toDevice \in {<<>>, <<Byte("run")>>, <<Byte("bad")>>}
AtDone == IF success THEN Finished ELSE Over

Lockstep ==
  /\ Sequential
  /\ pc = "idle" => AtIdle
  /\ pc = "prompt" => AtPrompt
  /\ pc = "name" => AtName
  /\ pc = "go" => AtGo
  /\ pc = "data" => AtData
  /\ pc = "eot" => AtEot
  /\ pc = "endgo" => AtEndgo
  /\ pc = "null" => AtNull
  /\ pc = "sent" => AtSent
  /\ pc = "failed" => AtFailed
  /\ pc = "done" => AtDone

LockInv == extra = 0 => Lockstep

LEMMA JunkMessages ==
  Junk \subseteq Messages /\ Openers \subseteq Messages /\ Rests \subseteq Junk /\ Junk \subseteq Openers
BY KeysIn, OtherFields DEF Junk, Openers, Rests

LEMMA NameIsLast ==
  ASSUME NEW s \in Seq(Messages), Only(s, Junk)
  PROVE  NameLast(Append(s, Name))
<1>1. /\ Len(Append(s, Name)) = Len(s) + 1 /\ Len(s) \in Nat
      /\ \A i \in 1 .. Len(s) : Append(s, Name)[i] = s[i]
      /\ Append(s, Name)[Len(s) + 1] = Name
  BY AppendProperties, LenProperties, OtherFields
<1> QED
  BY <1>1 DEF NameLast, Only

LEMMA OneNameOpeners ==
  ASSUME NEW s \in Seq(Messages), OneName(s)
  PROVE  Only(s, Openers)
<1>1. Len(s) \in Nat
  BY LenProperties
<1> QED
  BY <1>1 DEF OneName, NameLast, Only, Openers

\* When the one Name is heard nothing is behind it.
LEMMA OneNameTail ==
  ASSUME NEW s \in Seq(Messages), OneName(s), s # <<>>
  PROVE  /\ Head(s) \in Junk \/ (Head(s) = Name /\ Tail(s) = <<>>)
         /\ OneName(Tail(s))
<1>1. /\ Tail(s) \in Seq(Messages) /\ Len(Tail(s)) = Len(s) - 1 /\ Len(s) \in Nat \ {0}
      /\ \A i \in 1 .. Len(Tail(s)) : Tail(s)[i] = s[i + 1]
      /\ Head(s) = s[1]
  BY TailOf
<1>2. CASE Only(s, Junk)
  BY <1>2, OnlyTail DEF OneName
<1>3. CASE NameLast(s) /\ Len(s) = 1
  <2>1. Tail(s) = <<>>
    <3>1. Len(Tail(s)) = 0
      BY <1>1, <1>3
    <3> QED
      BY <1>1, <3>1, EmptySeq
  <2> QED
    BY <1>1, <1>3, <2>1, OnlyEmpty DEF NameLast, OneName
<1>4. CASE NameLast(s) /\ Len(s) # 1
  <2>1. Head(s) \in Junk
    BY <1>1, <1>4 DEF NameLast
  <2>2. NameLast(Tail(s))
    <3>1. Len(Tail(s)) > 0 /\ Len(s) - 1 \in 1 .. Len(Tail(s)) /\ Len(Tail(s)) \in Nat
      BY <1>1, <1>4
    <3>2. Tail(s)[Len(Tail(s))] = Name
      BY <1>1, <1>4, <3>1 DEF NameLast
    <3>3. ASSUME NEW i \in 1 .. Len(Tail(s)) - 1 PROVE Tail(s)[i] \in Junk
      <4>1. i \in 1 .. Len(Tail(s)) /\ i + 1 \in 1 .. Len(s) - 1
        BY <1>1, <1>4
      <4> QED
        BY <1>1, <1>4, <4>1 DEF NameLast
    <3> QED
      BY <3>1, <3>2, <3>3 DEF NameLast
  <2> QED
    BY <2>1, <2>2 DEF OneName
<1> QED
  BY <1>2, <1>3, <1>4 DEF OneName

LEMMA OneNameCons ==
  ASSUME NEW s \in Seq(Messages), OneName(s)
  PROVE  OneName(<<Byte("bad")>> \o s)
<1> DEFINE t == <<Byte("bad")>> \o s
<1>1. Byte("bad") \in Junk /\ Byte("bad") \in Messages
  BY KeysIn DEF Junk
<1>2. CASE Only(s, Junk)
  BY <1>1, <1>2, OnlyCons DEF OneName
<1>3. CASE NameLast(s)
  <2>1. /\ Len(t) = 1 + Len(s) /\ Len(s) \in Nat
        /\ \A i \in 1 .. 1 + Len(s) : t[i] = IF i <= 1 THEN Byte("bad") ELSE s[i - 1]
    <3>1. <<Byte("bad")>> \in Seq(Messages) /\ Len(<<Byte("bad")>>) = 1 /\ <<Byte("bad")>>[1] = Byte("bad")
      BY <1>1
    <3> QED
      BY <3>1, ConcatProperties, LenProperties
  <2> HIDE DEF t
  <2>2. NameLast(t)
    BY <1>1, <1>3, <2>1 DEF NameLast
  <2> QED
    BY <2>2 DEF OneName, t
<1> QED
  BY <1>2, <1>3 DEF OneName

-----------------------------------------------------------------------------
\* In lockstep the sender times out only when nothing is under way.
LEMMA LockstepReads ==
  ASSUME YmodemTypes, NEW ch, Getchar(ch), extra = 0, extra' = 0
  PROVE  /\ faults' = faults
         /\ \/ toHost # <<>> /\ ch = Head(toHost) /\ ch # TimedOut /\ toHost' = Tail(toHost)
            \/ toHost = <<>> /\ toDevice = <<>> /\ ch = TimedOut /\ toHost' = <<>>
BY Reads DEF YmodemTypes, Answers, TimedOut

LEMMA LockstepPrompt ==
  ASSUME YmodemTypes, Lockstep, NEW ch, Getchar(ch), Prompt(ch), extra = 0, extra' = 0,
         UNCHANGED <<attempt, success, bootloader>>
  PROVE  Lockstep'
<1>1. /\ attempt' = attempt /\ success' = success /\ device' = device /\ stored' = stored
      /\ pc = "prompt" /\ AtPrompt /\ Sequential'
  BY DEF bootloader, Prompt, Lockstep, Sequential
<1>2. toDevice \in Seq(Messages) /\ toHost \in Seq(Answers) /\ blockno = 0
  BY DEF YmodemTypes, Opening, Prompt
<1>3. CASE ch = "CRC"
  <2>1. pc' = "name" /\ crcNak' = crcNak /\ toDevice' = Append(toDevice, Name)
    BY <1>3 DEF Prompt, SendName, Send, TimedOut
  <2>2. toHost # <<>> /\ Head(toHost) = "CRC" /\ toHost' = Tail(toHost)
    BY <1>3, LockstepReads DEF TimedOut
  <2>3. Only(toHost', Garbled) /\ device \in {"menu", "pressed", "name"} /\ Only(toDevice, Junk)
    BY <1>1, <2>2 DEF AtPrompt, Garbled
  <2>4. toHost' = <<>> \/ (toHost' # <<>> /\ Head(toHost') \in Garbled)
    BY <1>2, <2>2, <2>3, TailOf, OnlyTail
  <2>5. OneName(toDevice')
    BY <1>2, <2>1, <2>3, NameIsLast DEF OneName
  <2>6. attempt = 1 => Len(toDevice') <= 1 /\ toHost' = <<>>
    <3>1. ASSUME attempt = 1 PROVE toDevice = <<>> /\ Len(toHost) = 1
      BY <1>1, <2>2, <3>1 DEF AtPrompt, FirstKeys
    <3>2. ASSUME attempt = 1 PROVE toHost' = <<>>
      BY <1>2, <2>2, <3>1, <3>2, TailOf, EmptySeq
    <3>3. ASSUME attempt = 1 PROVE Len(toDevice') <= 1
      <4>1. toDevice' = <<Name>>
        BY <2>1, <3>1, <3>3, Short
      <4> QED
        BY <4>1
    <3> QED
      BY <3>2, <3>3
  <2>7. AtName'
    BY <1>1, <2>1, <2>3, <2>4, <2>5, <2>6 DEF AtName, AtPrompt
  <2> QED
    BY <1>1, <2>1, <2>7 DEF Lockstep
<1>4. CASE ch = TimedOut /\ tries < 4
  <2>1. pc' = pc /\ crcNak' = crcNak /\ toDevice' = toDevice /\ toHost' = toHost
    BY <1>4, LockstepReads DEF Prompt, TimedOut
  <2>2. AtPrompt'
    BY <1>1, <2>1 DEF AtPrompt, FirstKeys
  <2> QED
    BY <1>1, <2>1, <2>2 DEF Lockstep
<1>5. CASE ch # "CRC" /\ (ch = TimedOut => tries = 4)
  <2>1. pc' = "failed" /\ toDevice' = toDevice /\ blockno' = 0
    BY <1>2, <1>5 DEF Prompt, Fail
  <2>2. Over'
    BY <1>1, <2>1, JunkMessages, OnlyMore DEF AtPrompt, Over
  <2>3. attempt = 1 => Only(toDevice', Rests)
    <3>1. ASSUME attempt = 1 PROVE toDevice = <<>>
      BY <1>1, <3>1, LockstepReads DEF AtPrompt, FirstKeys
    <3> QED
      BY <2>1, <3>1, OnlyEmpty
  <2>4. AtFailed'
    BY <1>1, <2>1, <2>2, <2>3 DEF AtFailed
  <2> QED
    BY <1>1, <2>1, <2>4 DEF Lockstep
<1> QED
  BY <1>3, <1>4, <1>5 DEF Prompt

LEMMA LockstepName ==
  ASSUME YmodemTypes, Lockstep, NEW ch, Getchar(ch), NameAnswer(ch), extra = 0, extra' = 0,
         UNCHANGED <<attempt, success, bootloader>>
  PROVE  Lockstep'
<1>1. /\ attempt' = attempt /\ success' = success /\ device' = device /\ stored' = stored
      /\ pc = "name" /\ AtName /\ Sequential'
  BY DEF bootloader, NameAnswer, Lockstep, Sequential
<1>2. toDevice \in Seq(Messages) /\ toHost \in Seq(Answers) /\ blockno = 0
  BY DEF YmodemTypes, Opening, NameAnswer
<1>3. CASE ch = "ACK"
  <2>1. pc' = "go" /\ crcNak' = crcNak /\ toDevice' = toDevice
    BY <1>3 DEF NameAnswer
  <2>2. Head(toHost) = "ACK" /\ toHost # <<>> /\ toHost' = Tail(toHost) /\ faults' = faults
    BY <1>3, LockstepReads DEF TimedOut
  <2>3. /\ Heard(Invited) /\ device = "data" /\ stored = <<>>
        /\ faults = 0 => toHost = <<"ACK", "CRC">>
    BY <1>1, <2>2 DEF AtName, Garbled
  <2>4. toHost' \in {<<>>, <<"CRC">>, <<"noise">>} /\ (faults = 0 => toHost' = <<"CRC">>)
    <3>1. /\ Tail(<<"ACK">>) = <<>> /\ Tail(<<"ACK", "CRC">>) = <<"CRC">>
          /\ Tail(<<"ACK", "noise">>) = <<"noise">>
      BY Short
    <3> QED
      BY <2>2, <2>3, <3>1 DEF Heard, Invited
  <2>5. AtGo'
    BY <1>1, <2>1, <2>2, <2>3, <2>4 DEF AtGo, AtName, Heard
  <2> QED
    BY <1>1, <2>1, <2>5 DEF Lockstep
<1>4. CASE ch # "ACK"
  <2>1. ch # "CRC"
    BY <1>1, <1>4, LockstepReads DEF AtName, Heard, Invited, Garbled, TimedOut
  <2>2. /\ pc' = "failed" /\ blockno' = 0
        /\ toDevice' = toDevice \o <<Byte("CAN"), Byte("CAN")>>
    BY <1>1, <1>2, <1>4, <2>1 DEF NameAnswer, AtName
  <2>3. OneName(toDevice)
    BY <1>1, OnlyEmpty DEF AtName, Heard, OneName
  <2>4. Byte("CAN") \in Openers /\ Byte("CAN") \in Rests /\ Byte("CAN") \in Messages
    BY KeysIn DEF Openers, Junk, Rests
  <2>5. Only(toDevice', Openers)
    BY <1>2, <2>2, <2>3, <2>4, OneNameOpeners, OnlyPair
  <2>6. attempt = 1 => Only(toDevice', Rests)
    <3>1. ASSUME attempt = 1 PROVE toDevice = <<>>
      BY <1>1, <3>1, LockstepReads DEF AtName
    <3> QED
      BY <1>2, <2>2, <2>4, <3>1, OnlyEmpty, OnlyPair
  <2>7. AtFailed'
    BY <1>1, <2>2, <2>5, <2>6 DEF AtFailed, Over, AtName
  <2> QED
    BY <1>1, <2>2, <2>7 DEF Lockstep
<1> QED
  BY <1>3, <1>4

LEMMA LockstepGo ==
  ASSUME YmodemTypes, Lockstep, NEW ch, Getchar(ch), Go(ch), extra = 0, extra' = 0,
         UNCHANGED <<attempt, success, bootloader>>
  PROVE  Lockstep'
<1>1. /\ attempt' = attempt /\ success' = success /\ device' = device /\ stored' = stored
      /\ pc = "go" /\ AtGo /\ Sequential'
  BY DEF bootloader, Go, Lockstep, Sequential
<1>2. toDevice = <<>> /\ toHost' = <<>> /\ faults' = faults /\ (ch # "CRC" => faults > 0)
  BY <1>1, LockstepReads DEF AtGo, Heard, YmodemTypes
<1>3. CASE ch = "CRC"
  <2>1. pc' = "data" /\ blockno' = 1 /\ toDevice' = <<Block(1)>>
    BY <1>2, <1>3, Short DEF Go, Send
  <2>2. Len(stored') = 0
    BY <1>1 DEF AtGo
  <2>3. AtData'
    BY <1>1, <1>2, <2>1, <2>2 DEF AtData, AtGo, Under
  <2> QED
    BY <1>1, <2>1, <2>3 DEF Lockstep
<1>4. CASE ch # "CRC"
  <2>1. pc' = "name" /\ crcNak' = crcNak /\ toDevice' = <<Name>>
    BY <1>2, <1>4, Short DEF Go, SendName, Send
  <2>2. OneName(toDevice')
    BY <2>1 DEF OneName, NameLast
  <2>3. AtName'
    BY <1>1, <1>2, <2>1, <2>2 DEF AtName, AtGo
  <2> QED
    BY <1>1, <2>1, <2>3 DEF Lockstep
<1> QED
  BY <1>3, <1>4

\* An answer outside packet 0 is the only character there is.
LEMMA TailsOfOne ==
  /\ Tail(<<"ACK">>) = <<>> /\ Tail(<<"NAK">>) = <<>> /\ Tail(<<"noise">>) = <<>>
  /\ Tail(<<"CRC">>) = <<>> /\ Tail(<<"ACK", "CRC">>) = <<"CRC">>
  /\ Tail(<<"ACK", "noise">>) = <<"noise">>
BY Short

LEMMA LockstepData ==
  ASSUME YmodemTypes, Lockstep, NEW ch, Getchar(ch), DataAnswer(ch), extra = 0, extra' = 0,
         UNCHANGED <<attempt, success, bootloader>>
  PROVE  Lockstep'
<1>1. /\ attempt' = attempt /\ success' = success /\ device' = device /\ stored' = stored
      /\ pc = "data" /\ AtData /\ Sequential'
  BY DEF bootloader, DataAnswer, Lockstep, Sequential
<1>2. blockno \in 1 .. Blocks /\ faults \in Nat
  BY DEF YmodemTypes, DataAnswer
<1>3. toDevice = <<>> /\ toHost' = <<>> /\ faults' = faults
  BY <1>1, LockstepReads, TailsOfOne DEF AtData, Under, Heard, Unheard
<1>4. CASE ch = "ACK"
  <2>1. Len(stored) = blockno
    BY <1>1, <1>4, LockstepReads DEF AtData, Under, Heard, Unheard, TimedOut
  <2>2. CASE blockno < Blocks
    <3>1. pc' = "data" /\ blockno' = blockno + 1 /\ toDevice' = <<Block(blockno + 1)>>
      BY <1>1, <1>3, <1>4, <2>2, Short DEF DataAnswer, Advance, Send, TimedOut
    <3>2. Len(stored') = blockno' - 1
      BY <1>1, <1>2, <2>1, <3>1
    <3>3. AtData'
      BY <1>1, <1>3, <3>1, <3>2 DEF AtData, Under
    <3> QED
      BY <1>1, <3>1, <3>3 DEF Lockstep
  <2>3. CASE ~(blockno < Blocks)
    <3>1. pc' = "eot" /\ toDevice' = <<Byte("EOT")>>
      BY <1>3, <1>4, <2>3, Short DEF DataAnswer, Advance, Send, TimedOut
    <3>2. Len(stored') = Blocks
      BY <1>1, <1>2, <2>1, <2>3, Numbers
    <3>3. AtEot'
      BY <1>1, <1>3, <3>1, <3>2 DEF AtEot, AtData, Under
    <3> QED
      BY <1>1, <3>1, <3>3 DEF Lockstep
  <2> QED
    BY <2>2, <2>3
<1>5. CASE ch # "ACK"
  <2>1. faults > 0
    BY <1>1, <1>2, <1>3, <1>5, LockstepReads DEF AtData
  <2>2. CASE ch \in {"CAN", TimedOut}
    <3>1. pc' = "failed" /\ toDevice' = <<>>
      BY <1>3, <1>5, <2>2 DEF DataAnswer, Fail
    <3>2. AtFailed'
      BY <1>1, <1>3, <2>1, <3>1, OnlyEmpty DEF AtFailed, Over, AtData
    <3> QED
      BY <1>1, <3>1, <3>2 DEF Lockstep
  <2>3. CASE ch \notin {"ACK", "CAN", TimedOut}
    <3>1. pc' = "data" /\ blockno' = blockno /\ toDevice' = <<Block(blockno)>>
      BY <1>1, <1>3, <2>3, Short DEF DataAnswer, Send
    <3>2. AtData'
      BY <1>1, <1>2, <1>3, <2>1, <3>1 DEF AtData, Under
    <3> QED
      BY <1>1, <3>1, <3>2 DEF Lockstep
  <2> QED
    BY <1>5, <2>2, <2>3
<1> QED
  BY <1>4, <1>5

LEMMA LockstepEot ==
  ASSUME YmodemTypes, Lockstep, NEW ch, Getchar(ch), EotAnswer(ch), extra = 0, extra' = 0,
         UNCHANGED <<attempt, success, bootloader>>
  PROVE  Lockstep'
<1>1. /\ attempt' = attempt /\ success' = success /\ device' = device /\ stored' = stored
      /\ pc = "eot" /\ AtEot /\ Sequential'
  BY DEF bootloader, EotAnswer, Lockstep, Sequential
<1>2. faults \in Nat
  BY DEF YmodemTypes
<1>3. toDevice = <<>> /\ faults' = faults
  BY <1>1, LockstepReads DEF AtEot, Under, Heard
<1>4. CASE ch = "ACK"
  <2>1. toHost \in Invited /\ device = "null" /\ toHost' = Tail(toHost)
    BY <1>1, <1>4, LockstepReads DEF AtEot, Under, Heard, Unheard, TimedOut
  <2>2. pc' = "endgo" /\ toDevice' = <<>>
    BY <1>3, <1>4 DEF EotAnswer, TimedOut
  <2>3. toHost' \in {<<>>, <<"CRC">>, <<"noise">>}
    BY <2>1, TailsOfOne DEF Invited
  <2>4. faults = 0 => toHost' = <<"CRC">>
    <3>1. faults = 0 => toHost = <<"ACK", "CRC">>
      BY <1>1, <1>3 DEF AtEot
    <3> QED
      BY <2>1, <3>1, TailsOfOne
  <2>5. AtEndgo'
    BY <1>1, <1>3, <2>1, <2>2, <2>3, <2>4 DEF AtEndgo, AtEot, Heard
  <2> QED
    BY <1>1, <2>2, <2>5 DEF Lockstep
<1>5. CASE ch # "ACK"
  <2>1. faults > 0 /\ toHost' = <<>>
    <3>1. toHost = <<>> \/ toHost \in Unheard
      BY <1>1, <1>3, <1>5, LockstepReads DEF AtEot, Under, Heard, Invited
    <3>2. toHost' = <<>>
      BY <3>1, LockstepReads, TailsOfOne DEF Unheard
    <3>3. toHost # <<"ACK", "CRC">>
      BY <3>1 DEF Unheard
    <3> QED
      BY <1>1, <1>2, <1>3, <3>2, <3>3 DEF AtEot
  <2>2. CASE ch = TimedOut
    <3>1. pc' = "failed" /\ toDevice' = <<>>
      BY <1>3, <1>5, <2>2 DEF EotAnswer, Fail
    <3>2. AtFailed'
      BY <1>1, <1>3, <2>1, <3>1, OnlyEmpty DEF AtFailed, Over, AtEot
    <3> QED
      BY <1>1, <3>1, <3>2 DEF Lockstep
  <2>3. CASE ch \notin {"ACK", TimedOut}
    <3>1. pc' = "eot" /\ toDevice' = <<Byte("EOT")>>
      BY <1>1, <1>3, <2>3, Short DEF EotAnswer, Send
    <3>2. AtEot'
      BY <1>1, <1>2, <1>3, <2>1, <3>1 DEF AtEot, Under
    <3> QED
      BY <1>1, <3>1, <3>2 DEF Lockstep
  <2> QED
    BY <1>5, <2>2, <2>3
<1> QED
  BY <1>4, <1>5

LEMMA LockstepEndGo ==
  ASSUME YmodemTypes, Lockstep, NEW ch, Getchar(ch), EndGo(ch), extra = 0, extra' = 0,
         UNCHANGED <<attempt, success, bootloader>>
  PROVE  Lockstep'
<1>1. /\ attempt' = attempt /\ success' = success /\ device' = device /\ stored' = stored
      /\ pc = "endgo" /\ AtEndgo /\ Sequential'
  BY DEF bootloader, EndGo, Lockstep, Sequential
<1>2. /\ toDevice = <<>> /\ toHost' = <<>> /\ faults' = faults /\ faults \in Nat
      /\ ch # "CRC" => faults > 0
  BY <1>1, LockstepReads, TailsOfOne DEF AtEndgo, Heard, YmodemTypes
<1>3. CASE ch = "CRC"
  <2>1. pc' = "null" /\ toDevice' = <<Null>>
    BY <1>2, <1>3, Short DEF EndGo, Send
  <2>2. AtNull'
    BY <1>1, <1>2, <2>1 DEF AtNull, AtEndgo, Under
  <2> QED
    BY <1>1, <2>1, <2>2 DEF Lockstep
<1>4. CASE ch # "CRC"
  <2>1. pc' = "failed" /\ toDevice' = <<>>
    BY <1>2, <1>4 DEF EndGo, Fail
  <2>2. AtFailed'
    BY <1>1, <1>2, <1>4, <2>1, OnlyEmpty DEF AtFailed, Over, AtEndgo
  <2> QED
    BY <1>1, <2>1, <2>2 DEF Lockstep
<1> QED
  BY <1>3, <1>4

LEMMA LockstepNull ==
  ASSUME YmodemTypes, Lockstep, NEW ch, Getchar(ch), NullAnswer(ch), extra = 0, extra' = 0,
         UNCHANGED <<attempt, success, bootloader>>
  PROVE  Lockstep'
<1>1. /\ attempt' = attempt /\ success' = success /\ device' = device /\ stored' = stored
      /\ pc = "null" /\ AtNull /\ Sequential'
  BY DEF bootloader, NullAnswer, Lockstep, Sequential
<1>2. toDevice = <<>> /\ toHost' = <<>> /\ faults' = faults /\ faults \in Nat
  BY <1>1, LockstepReads, TailsOfOne DEF AtNull, Under, Heard, Unheard, YmodemTypes
<1>3. CASE ch = "ACK"
  <2>1. device = "menu"
    BY <1>1, <1>3, LockstepReads DEF AtNull, Under, Heard, Unheard, TimedOut
  <2>2. pc' = "sent" /\ toDevice' = <<>>
    BY <1>2, <1>3 DEF NullAnswer, TimedOut
  <2>3. AtSent'
    BY <1>1, <1>2, <2>1, <2>2 DEF AtSent, AtNull
  <2> QED
    BY <1>1, <2>2, <2>3 DEF Lockstep
<1>4. CASE ch # "ACK"
  <2>1. faults > 0
    BY <1>1, <1>2, <1>4, LockstepReads DEF AtNull
  <2>2. CASE ch = TimedOut
    <3>1. pc' = "failed" /\ toDevice' = <<>>
      BY <1>2, <1>4, <2>2 DEF NullAnswer, Fail
    <3>2. AtFailed'
      BY <1>1, <1>2, <2>1, <3>1, OnlyEmpty DEF AtFailed, Over, AtNull
    <3> QED
      BY <1>1, <3>1, <3>2 DEF Lockstep
  <2>3. CASE ch \notin {"ACK", TimedOut}
    <3>1. pc' = "null" /\ toDevice' = <<Null>>
      BY <1>1, <1>2, <2>3, Short DEF NullAnswer, Send
    <3>2. AtNull'
      BY <1>1, <1>2, <2>1, <3>1 DEF AtNull, Under
    <3> QED
      BY <1>1, <3>1, <3>2 DEF Lockstep
  <2> QED
    BY <1>4, <2>2, <2>3
<1> QED
  BY <1>3, <1>4

LEMMA LockstepSender ==
  ASSUME YmodemTypes, Lockstep, Sender, extra = 0, extra' = 0
  PROVE  Lockstep'
BY LockstepPrompt, LockstepName, LockstepGo, LockstepData, LockstepEot, LockstepEndGo, LockstepNull
   DEF Sender

LEMMA LockstepStart ==
  ASSUME YmodemTypes, Lockstep, Start
  PROVE  Lockstep'
<1>1. /\ pc = "idle" /\ AtIdle /\ Sequential' /\ pc' = "prompt" /\ device' = device
      /\ toHost' = <<>> /\ crcNak' = TRUE /\ attempt' = attempt + 1 /\ attempt \in {0, 1}
      /\ toDevice' = toDevice \o <<Byte("c"), Byte("1")>> /\ toDevice \in Seq(Messages)
  BY DEF Start, Lockstep, Sequential, YmodemTypes
<1>2. Only(toDevice', Junk)
  <2>1. /\ Byte("c") \in Junk /\ Byte("1") \in Junk
        /\ Byte("c") \in Messages /\ Byte("1") \in Messages
    BY KeysIn DEF Junk
  <2>2. Only(toDevice, Junk)
    BY <1>1, JunkMessages, OnlyMore DEF AtIdle
  <2> QED
    BY <1>1, <2>1, <2>2, OnlyPair
<1>3. attempt' = 1 => device' = "menu" /\ Len(toDevice') = 2
  <2>1. attempt = 0 => toDevice' = <<Byte("c"), Byte("1")>>
    BY <1>1, Short DEF AtIdle
  <2> QED
    BY <1>1, <2>1 DEF AtIdle
<1>4. AtPrompt'
  BY <1>1, <1>2, <1>3 DEF AtPrompt, FirstKeys, AtIdle
<1> QED
  BY <1>1, <1>4 DEF Lockstep

LEMMA LockstepReturn ==
  ASSUME YmodemTypes, Lockstep, Return
  PROVE  Lockstep'
<1>1. /\ attempt' = attempt /\ device' = device /\ stored' = stored /\ Sequential'
      /\ attempt \in {1, 2}
  BY DEF Return, bootloader, Lockstep, Sequential, YmodemTypes
<1>2. CASE pc = "sent"
  <2>1. pc' = "done" /\ success' = TRUE /\ toDevice' = <<Byte("run")>> /\ AtSent
    BY <1>2, Short DEF Return, Lockstep, AtSent, Send
  <2>2. AtDone'
    BY <1>1, <2>1 DEF AtDone, AtSent, Finished
  <2> QED
    BY <1>1, <2>1, <2>2 DEF Lockstep
<1>3. CASE pc = "failed"
  <2>1. success' = FALSE /\ toDevice' = toDevice /\ AtFailed
    BY <1>3 DEF Return, Lockstep
  <2>2. CASE attempt = 1
    <3>1. pc' = "idle"
      BY <1>3, <2>2 DEF Return
    <3>2. AtIdle'
      BY <1>1, <2>1, <2>2 DEF AtIdle, AtFailed, Over
    <3> QED
      BY <1>1, <3>1, <3>2 DEF Lockstep
  <2>3. CASE attempt = 2
    <3>1. pc' = "done"
      BY <1>3, <2>3 DEF Return
    <3>2. AtDone'
      BY <1>1, <2>1 DEF AtDone, AtFailed, Over
    <3> QED
      BY <1>1, <3>1, <3>2 DEF Lockstep
  <2> QED
    BY <1>1, <2>2, <2>3
<1> QED
  BY <1>2, <1>3 DEF Return

-----------------------------------------------------------------------------
\* What the device makes of a key, a CAN or a damaged packet.
LEMMA HearsJunk ==
  ASSUME YmodemTypes, Device, Head(toDevice) \in Junk
  PROVE  /\ stored' = stored
         /\ device = "menu" => device' \in {"menu", "pressed"}
         /\ device = "pressed" => device' \in {"menu", "name"}
         /\ device \in {"name", "data", "null"} => device' \in {"menu", device}
         /\ device = "running" => device' = "running"
         /\ \/ toHost' = toHost
            \/ toHost' = toHost \o <<"NAK">> /\ device \in {"name", "data", "null"}
<1>1. PICK k \in {"c", "1", "CAN", "bad"} : Head(toDevice) = Byte(k)
  BY DEF Junk
<1>2. k \in Keys /\ Byte(k).kind = k
  BY OtherFields DEF Keys
<1>3. CASE device \in {"menu", "pressed", "running"}
  BY <1>1, <1>2, <1>3, HearsInMenu
<1>4. CASE device \in {"name", "data", "null"}
  <2>1. /\ stored' = stored
        /\ k = "CAN" => device' = "menu" /\ toHost' = toHost
        /\ k = "bad" => device' = device /\ toHost' = toHost \o <<"NAK">>
        /\ k \in {"c", "1"} => device' = device /\ toHost' = toHost
    BY <1>1, <1>2, <1>4, HearsKey
  <2> QED
    BY <1>1, <1>4, <2>1
<1> QED
  BY <1>3, <1>4 DEF YmodemTypes

\* A Name, when the device is not in the middle of a file.
LEMMA HearsOpener ==
  ASSUME YmodemTypes, Device, Head(toDevice) = Name, device = "data" => stored = <<>>
  PROVE  \/ /\ device \in {"menu", "pressed"} /\ device' = "menu"
            /\ stored' = stored /\ toHost' = toHost
         \/ /\ device \in {"null", "running"} /\ device' = device
            /\ stored' = stored /\ toHost' = toHost
         \/ /\ device \in {"name", "data"} /\ device' = "data" /\ stored' = <<>>
            /\ toHost' = toHost \o <<"ACK", "CRC">>
<1>1. Name.kind = "name"
  BY OtherFields
<1>2. CASE device \in {"menu", "pressed", "running"}
  BY <1>1, <1>2, HearsInMenu
<1>3. CASE device \in {"name", "data", "null"}
  BY <1>3, HearsName
<1> QED
  BY <1>2, <1>3 DEF YmodemTypes

\* The oldest character stays the oldest.
LEMMA HeadOfMore ==
  ASSUME YmodemTypes, NEW s \in Seq(Answers)
  PROVE  /\ toHost # <<>> => toHost \o s # <<>> /\ Head(toHost \o s) = Head(toHost)
         /\ toHost = <<>> => toHost \o s = s
<1>1. toHost \in Seq(Answers)
  BY DEF YmodemTypes
<1>2. ASSUME toHost # <<>>
      PROVE  toHost \o s # <<>> /\ Head(toHost \o s) = Head(toHost)
  <2>1. /\ toHost \o s \in Seq(Answers) /\ Len(toHost \o s) = Len(toHost) + Len(s)
        /\ \A i \in 1 .. Len(toHost) + Len(s) :
              (toHost \o s)[i] = IF i <= Len(toHost) THEN toHost[i] ELSE s[i - Len(toHost)]
    BY <1>1, ConcatProperties
  <2>2. Len(toHost) \in Nat \ {0} /\ Len(s) \in Nat
    BY <1>1, <1>2, EmptySeq, LenProperties
  <2>3. toHost \o s # <<>>
    BY <1>1, <1>2, ConcatEqualIffEmpty
  <2>4. (toHost \o s)[1] = toHost[1]
    BY <2>1, <2>2
  <2> QED
    BY <1>1, <1>2, <2>1, <2>3, <2>4, TailOf
<1>3. toHost = <<>> => toHost \o s = s
  BY ConcatEmptySeq
<1> QED
  BY <1>2, <1>3

\* A NAK behind other characters.
LEMMA NakBehind ==
  ASSUME YmodemTypes, toHost # <<>>, Only(Tail(toHost), Garbled)
  PROVE  Only(Tail(toHost \o <<"NAK">>), Garbled)
<1>1. toHost \in Seq(Answers) /\ Tail(toHost) \in Seq(Answers) /\ "NAK" \in Answers /\ "NAK" \in Garbled
  BY TailOf DEF YmodemTypes, Answers, Garbled
<1>2. toHost \o <<"NAK">> = Append(toHost, "NAK")
  BY <1>1, AppendIsConcat
<1>3. Tail(Append(toHost, "NAK")) = Append(Tail(toHost), "NAK")
  BY <1>1, HeadTailAppend
<1> QED
  BY <1>1, <1>2, <1>3, OnlyAppend

LEMMA PromptDevice ==
  ASSUME YmodemTypes, Lockstep, Device, pc = "prompt"
  PROVE  Lockstep'
<1>1. /\ pc' = pc /\ crcNak' = crcNak /\ attempt' = attempt
      /\ toDevice # <<>> /\ toDevice' = Tail(toDevice) /\ toDevice \in Seq(Messages)
      /\ AtPrompt /\ Sequential /\ toHost \in Seq(Answers)
  BY DeviceFrame DEF Lockstep, YmodemTypes
<1>2. Only(toDevice', Junk) /\ Head(toDevice) \in Junk
  BY <1>1, OnlyTail DEF AtPrompt
<1>3. /\ stored' = stored
      /\ device = "menu" => device' \in {"menu", "pressed"}
      /\ device = "pressed" => device' \in {"menu", "name"}
      /\ device \in {"name", "data", "null"} => device' \in {"menu", device}
      /\ device = "running" => device' = "running"
      /\ \/ toHost' = toHost
         \/ toHost' = toHost \o <<"NAK">> /\ device \in {"name", "data", "null"}
  BY <1>2, HearsJunk
<1>4. device \in {"menu", "pressed", "name", "data", "null"} /\ device' # "running"
  BY <1>1, <1>3 DEF AtPrompt, YmodemTypes
<1>5. \/ toHost' = <<>>
      \/ toHost' # <<>> /\ Head(toHost') \in Garbled
      \/ /\ toHost' # <<>> /\ Head(toHost') = "CRC" /\ Only(Tail(toHost'), Garbled)
         /\ device' \in {"menu", "pressed", "name"}
  <2>1. CASE toHost' = toHost
    BY <1>1, <1>3, <1>4, <2>1 DEF AtPrompt
  <2>2. CASE toHost' = toHost \o <<"NAK">> /\ toHost = <<>>
    <3>1. toHost' = <<"NAK">>
      BY <2>2, Short
    <3> QED
      BY <3>1, Short DEF Garbled
  <2>3. CASE toHost' = toHost \o <<"NAK">> /\ toHost # <<>>
    <3>1. <<"NAK">> \in Seq(Answers)
      BY DEF Answers
    <3>2. toHost' # <<>> /\ Head(toHost') = Head(toHost)
      BY <2>3, <3>1, HeadOfMore
    <3>3. Only(Tail(toHost), Garbled) => Only(Tail(toHost'), Garbled)
      BY <2>3, NakBehind
    <3> QED
      BY <1>1, <1>3, <1>4, <2>3, <3>2, <3>3 DEF AtPrompt
  <2> QED
    BY <1>3, <2>1, <2>2, <2>3
<1>6. attempt = 1 => FirstKeys'
  <2> SUFFICES ASSUME attempt = 1 PROVE FirstKeys'
    OBVIOUS
  <2>1. FirstKeys
    BY <1>1 DEF AtPrompt
  <2>2. device \in {"menu", "pressed"} /\ toHost' = toHost /\ toHost = <<>>
    BY <1>1, <1>3, <2>1 DEF FirstKeys
  <2>3. Len(toDevice') = Len(toDevice) - 1 /\ Len(toDevice) \in Nat
    BY <1>1, TailOf
  <2>4. device = "pressed" => toDevice' = <<>>
    <3>1. device = "pressed" => Len(toDevice') = 0
      BY <1>1, <2>1, <2>3, TailOf DEF FirstKeys
    <3>2. toDevice' \in Seq(Messages)
      BY <1>1, TailOf
    <3> QED
      BY <3>1, <3>2, EmptySeq
  <2> QED
    BY <1>3, <2>1, <2>2, <2>3, <2>4 DEF FirstKeys
<1>7. AtPrompt'
  BY <1>1, <1>2, <1>4, <1>5, <1>6 DEF AtPrompt
<1>8. Sequential'
  BY <1>1, <1>3 DEF Sequential
<1> QED
  BY <1>1, <1>7, <1>8 DEF Lockstep

LEMMA NameDevice ==
  ASSUME YmodemTypes, Lockstep, Device, pc = "name"
  PROVE  Lockstep'
<1>1. /\ pc' = pc /\ crcNak' = crcNak /\ attempt' = attempt /\ faults' = faults
      /\ toDevice # <<>> /\ toDevice' = Tail(toDevice) /\ toDevice \in Seq(Messages)
      /\ AtName /\ Sequential /\ toHost \in Seq(Answers)
  BY DeviceFrame DEF Lockstep, YmodemTypes
<1>2. /\ OneName(toDevice) /\ (toHost = <<>> \/ (toHost # <<>> /\ Head(toHost) \in Garbled))
      /\ device \in {"menu", "pressed", "name", "data"} /\ (device = "data" => stored = <<>>)
  BY <1>1 DEF AtName, Heard
<1>3. /\ Head(toDevice) \in Junk \/ (Head(toDevice) = Name /\ toDevice' = <<>>)
      /\ OneName(toDevice')
  BY <1>1, <1>2, OneNameTail
<1>4. attempt = 1 => toDevice' = <<>> /\ toHost = <<>>
  <2>1. attempt = 1 => Len(toDevice) <= 1 /\ toHost = <<>>
    BY <1>1 DEF AtName
  <2>2. toDevice' \in Seq(Messages) /\ Len(toDevice') = Len(toDevice) - 1 /\ Len(toDevice) \in Nat \ {0}
    BY <1>1, TailOf
  <2>3. attempt = 1 => Len(toDevice') = 0
    BY <2>1, <2>2
  <2> QED
    BY <2>1, <2>2, <2>3, EmptySeq
<1>5. Len(<<>>) = 0
  OBVIOUS
<1>6. CASE Head(toDevice) \in Junk
  <2>1. /\ stored' = stored /\ device' \in {"menu", "pressed", "name", "data"}
        /\ device' = "data" => stored' = <<>>
        /\ toHost' = toHost \/ toHost' = toHost \o <<"NAK">>
    BY <1>2, <1>6, HearsJunk
  <2>2. toHost' = <<>> \/ (toHost' # <<>> /\ Head(toHost') \in Garbled)
    <3>1. <<"NAK">> \in Seq(Answers)
      BY DEF Answers
    <3>2. toHost # <<>> => toHost \o <<"NAK">> # <<>> /\ Head(toHost \o <<"NAK">>) = Head(toHost)
      BY <3>1, HeadOfMore
    <3>3. toHost = <<>> => toHost \o <<"NAK">> = <<"NAK">>
      BY <3>1, HeadOfMore
    <3>4. <<"NAK">> # <<>> /\ Head(<<"NAK">>) \in Garbled
      BY Short DEF Garbled
    <3> QED
      BY <1>2, <2>1, <3>2, <3>3, <3>4
  <2>3. AtName'
    BY <1>1, <1>3, <1>4, <1>5, <2>1, <2>2 DEF AtName
  <2>4. Sequential'
    BY <1>1, <2>1 DEF Sequential
  <2> QED
    BY <1>1, <2>3, <2>4 DEF Lockstep
<1>7. CASE Head(toDevice) = Name
  <2>0. toDevice' = <<>>
    <3>1. Name \notin Junk
      BY OtherFields DEF Junk, Keys
    <3> QED
      BY <1>3, <1>7, <3>1
  <2>1. CASE device \in {"menu", "pressed"}
    <3>1. device' = "menu" /\ stored' = stored /\ toHost' = toHost
      BY <1>2, <1>7, <2>1, HearsOpener
    <3>2. AtName'
      BY <1>1, <1>2, <1>3, <1>4, <1>5, <3>1 DEF AtName
    <3>3. Sequential'
      BY <1>1, <3>1 DEF Sequential
    <3> QED
      BY <1>1, <3>2, <3>3 DEF Lockstep
  <2>2. CASE device \in {"name", "data"}
    <3>1. device' = "data" /\ stored' = <<>> /\ toHost' = toHost \o <<"ACK", "CRC">>
      BY <1>2, <1>7, <2>2, HearsOpener
    <3>2. <<"ACK", "CRC">> \in Seq(Answers)
      BY DEF Answers
    <3>3. toHost = <<>> => toHost' = <<"ACK", "CRC">>
      BY <3>1, <3>2, HeadOfMore
    <3>4. toHost # <<>> => toHost' # <<>> /\ Head(toHost') = Head(toHost)
      BY <3>1, <3>2, HeadOfMore
    <3>5. AtName'
      BY <1>1, <1>2, <1>3, <1>4, <1>5, <2>0, <3>1, <3>3, <3>4 DEF AtName, Heard, Invited
    <3>6. Sequential'
      BY <3>1 DEF Sequential
    <3> QED
      BY <1>1, <3>5, <3>6 DEF Lockstep
  <2> QED
    BY <1>2, <2>1, <2>2
<1> QED
  BY <1>3, <1>6, <1>7

\* Outside packet 0 the message under way is the device's next.
LEMMA SingleMessage ==
  ASSUME YmodemTypes, Device, NEW m \in Messages, Under(m)
  PROVE  /\ toHost = <<>> /\ toDevice' = <<>> /\ toDevice # <<>>
         /\ Head(toDevice) = Byte("bad") \/ (Head(toDevice) = m /\ toDevice = <<m>>)
BY DeviceFrame, Short DEF Under

LEMMA DataDevice ==
  ASSUME YmodemTypes, Lockstep, Device, pc = "data"
  PROVE  Lockstep'
<1>1. /\ pc' = pc /\ blockno' = blockno /\ faults' = faults
      /\ toDevice # <<>> /\ AtData /\ Sequential /\ blockno \in 1 .. Blocks
      /\ stored \in Seq(0 .. Blocks) /\ faults \in Nat
  BY DeviceFrame DEF Lockstep, YmodemTypes
<1>2. Under(Block(blockno)) /\ device = "data"
  BY <1>1 DEF AtData, Heard
<1>3. /\ toHost = <<>> /\ toDevice' = <<>>
      /\ Head(toDevice) = Byte("bad") \/ (Head(toDevice) = Block(blockno) /\ toDevice = <<Block(blockno)>>)
  BY <1>1, <1>2, BlockFields, SingleMessage
<1>4. CASE Head(toDevice) = Byte("bad")
  <2>1. device' = "data" /\ stored' = stored /\ toHost' = <<"NAK">>
    <3>1. "bad" \in Keys
      BY DEF Keys
    <3>2. device' = "data" /\ stored' = stored /\ toHost' = toHost \o <<"NAK">>
      BY <1>2, <1>4, <3>1, HearsKey
    <3> QED
      BY <1>3, <3>2, Short
  <2>2. faults > 0
    <3>1. toDevice # <<Block(blockno)>>
      BY <1>1, <1>4, BlockFields, KeysIn, OtherFields, Short DEF Keys
    <3>2. toHost # <<"ACK">>
      BY <1>3, Short
    <3> QED
      BY <1>1, <3>1, <3>2 DEF AtData
  <2>3. AtData'
    BY <1>1, <1>3, <2>1, <2>2 DEF AtData, Heard, Unheard
  <2>4. Sequential'
    BY <1>1, <2>1 DEF Sequential
  <2> QED
    BY <1>1, <2>3, <2>4 DEF Lockstep
<1>5. CASE Head(toDevice) = Block(blockno)
  <2>1. CASE Len(stored) = blockno - 1
    <3>1. blockno % Wrap = Expected
      BY <1>1, <2>1 DEF Expected
    <3>2. device' = "data" /\ stored' = Append(stored, blockno) /\ toHost' = toHost \o <<"ACK">>
      BY <1>1, <1>2, <1>5, <3>1, HearsBlock
    <3>3. toHost' = <<"ACK">>
      BY <1>3, <3>2, Short
    <3>4. /\ Len(stored') = Len(stored) + 1 /\ Len(stored) \in Nat
          /\ \A i \in 1 .. Len(stored) : stored'[i] = stored[i]
          /\ stored'[Len(stored) + 1] = blockno
      BY <1>1, <3>2, AppendProperties, LenProperties, Numbers
    <3>5. Sequential'
      BY <1>1, <2>1, <3>4 DEF Sequential
    <3>6. Len(stored') = blockno
      BY <1>1, <2>1, <3>4
    <3>7. AtData'
      BY <1>1, <1>3, <3>2, <3>3, <3>6 DEF AtData, Heard
    <3> QED
      BY <1>1, <3>5, <3>7 DEF Lockstep
  <2>2. CASE Len(stored) = blockno
    <3>1. blockno % Wrap = Previous
      BY <1>1, <2>2 DEF Previous
    <3>2. device' = "data" /\ stored' = stored /\ toHost' = toHost \o <<"ACK">>
      BY <1>1, <1>2, <1>5, <3>1, HearsBlock
    <3>3. toHost' = <<"ACK">>
      BY <1>3, <3>2, Short
    <3>4. AtData'
      BY <1>1, <1>3, <2>2, <3>2, <3>3 DEF AtData, Heard
    <3>5. Sequential'
      BY <1>1, <3>2 DEF Sequential
    <3> QED
      BY <1>1, <3>4, <3>5 DEF Lockstep
  <2> QED
    BY <1>1, <2>1, <2>2 DEF AtData
<1> QED
  BY <1>3, <1>4, <1>5

LEMMA EotDevice ==
  ASSUME YmodemTypes, Lockstep, Device, pc = "eot"
  PROVE  Lockstep'
<1>1. /\ pc' = pc /\ faults' = faults /\ toDevice # <<>> /\ AtEot /\ Sequential
      /\ faults \in Nat
  BY DeviceFrame DEF Lockstep, YmodemTypes
<1>2. Under(Byte("EOT")) /\ device \in {"data", "null"}
  BY <1>1 DEF AtEot, Heard
<1>3. /\ toHost = <<>> /\ toDevice' = <<>>
      /\ Head(toDevice) = Byte("bad") \/ Head(toDevice) = Byte("EOT")
  BY <1>1, <1>2, KeysIn, SingleMessage
<1>4. "bad" \in Keys /\ "EOT" \in Keys /\ Byte("bad") # Byte("EOT")
  BY OtherFields DEF Keys
<1>5. CASE Head(toDevice) = Byte("bad")
  <2>1. device' = device /\ stored' = stored /\ toHost' = <<"NAK">>
    BY <1>2, <1>3, <1>4, <1>5, HearsKey, Short
  <2>2. faults > 0
    BY <1>1, <1>3, <1>4, <1>5, Short DEF AtEot
  <2>3. AtEot'
    BY <1>1, <1>3, <2>1, <2>2 DEF AtEot, Heard, Unheard
  <2>4. Sequential'
    BY <1>1, <2>1 DEF Sequential
  <2> QED
    BY <1>1, <2>3, <2>4 DEF Lockstep
<1>6. CASE Head(toDevice) = Byte("EOT")
  <2>1. device' = "null" /\ stored' = stored /\ toHost' = <<"ACK", "CRC">>
    BY <1>2, <1>3, <1>4, <1>6, HearsKey, Short
  <2>2. AtEot'
    BY <1>1, <1>3, <2>1 DEF AtEot, Heard, Invited
  <2>3. Sequential'
    BY <1>1, <2>1 DEF Sequential
  <2> QED
    BY <1>1, <2>2, <2>3 DEF Lockstep
<1> QED
  BY <1>3, <1>5, <1>6

LEMMA NullDevice ==
  ASSUME YmodemTypes, Lockstep, Device, pc = "null"
  PROVE  Lockstep'
<1>1. /\ pc' = pc /\ faults' = faults /\ toDevice # <<>> /\ AtNull /\ Sequential
      /\ faults \in Nat
  BY DeviceFrame DEF Lockstep, YmodemTypes
<1>2. Under(Null) /\ device \in {"null", "menu"}
  BY <1>1 DEF AtNull, Heard
<1>3. /\ toHost = <<>> /\ toDevice' = <<>>
      /\ Head(toDevice) = Byte("bad") \/ (Head(toDevice) = Null /\ toDevice = <<Null>>)
  BY <1>1, <1>2, OtherFields, SingleMessage
<1>4. "bad" \in Keys /\ Byte("bad") # Null /\ Byte("bad").kind = "bad" /\ Null.kind = "null"
  BY OtherFields DEF Keys
<1>5. CASE Head(toDevice) = Byte("bad") \/ device = "menu"
  <2>0. faults > 0
    BY <1>1, <1>3, <1>4, <1>5, Short DEF AtNull
  <2>1. device' = device /\ stored' = stored /\ (toHost' = <<"NAK">> \/ toHost' = <<>>)
    <3>1. CASE device = "menu"
      BY <1>3, <1>4, <3>1, HearsInMenu
    <3>2. CASE device = "null"
      BY <1>3, <1>4, <1>5, <3>2, HearsKey, Short
    <3> QED
      BY <1>2, <3>1, <3>2
  <2>3. AtNull'
    BY <1>1, <1>3, <2>0, <2>1 DEF AtNull, Under, Heard, Unheard
  <2>4. Sequential'
    BY <1>1, <2>1 DEF Sequential
  <2> QED
    BY <1>1, <2>3, <2>4 DEF Lockstep
<1>6. CASE Head(toDevice) = Null /\ device = "null"
  <2>1. device' = "menu" /\ stored' = stored /\ toHost' = <<"ACK">>
    BY <1>3, <1>6, HearsNull, Short
  <2>2. AtNull'
    BY <1>1, <1>3, <2>1 DEF AtNull, Heard
  <2>3. Sequential'
    BY <1>1, <2>1 DEF Sequential
  <2> QED
    BY <1>1, <2>2, <2>3 DEF Lockstep
<1> QED
  BY <1>2, <1>3, <1>5, <1>6

\* After a failure the device stores nothing more.
LEMMA OverDevice ==
  ASSUME YmodemTypes, Device, Over, Sequential
  PROVE  Over' /\ Sequential'
<1>1. /\ toDevice # <<>> /\ toDevice' = Tail(toDevice) /\ toDevice \in Seq(Messages)
      /\ Only(toDevice, Openers)
  BY DeviceFrame DEF YmodemTypes, Over
<1>2. Only(toDevice', Openers) /\ Head(toDevice) \in Openers
  BY <1>1, OnlyTail
<1>3. Only(toDevice, Junk) => Only(toDevice', Junk) /\ Head(toDevice) \in Junk
  BY <1>1, OnlyTail
<1>4. CASE Head(toDevice) \in Junk
  <2>1. /\ stored' = stored /\ device' # "running"
        /\ device' = "data" => device = "data"
    BY <1>4, HearsJunk DEF Over, YmodemTypes
  <2>2. Sequential'
    BY <2>1 DEF Sequential
  <2> QED
    BY <1>1, <1>2, <1>3, <2>1, <2>2 DEF Over
<1>5. CASE Head(toDevice) = Name
  <2>1. Name \notin Junk
    BY OtherFields DEF Junk, Keys
  <2>2. device = "data" => stored = <<>>
    BY <1>3, <1>5, <2>1 DEF Over
  <2>3. /\ device' # "running" /\ (device' = "data" => stored' = <<>>)
        /\ stored' = stored \/ stored' = <<>>
    BY <1>5, <2>2, HearsOpener DEF Over
  <2>4. Sequential'
    BY <2>3 DEF Sequential
  <2> QED
    BY <1>2, <2>3, <2>4 DEF Over
<1> QED
  BY <1>2, <1>4, <1>5 DEF Openers

LEMMA LockstepDevice ==
  ASSUME YmodemTypes, Lockstep, Device
  PROVE  Lockstep'
<1>1. /\ pc' = pc /\ blockno' = blockno /\ attempt' = attempt /\ success' = success
      /\ faults' = faults
      /\ toDevice # <<>> /\ toDevice' = Tail(toDevice) /\ toDevice \in Seq(Messages) /\ Sequential
  BY DeviceFrame DEF Lockstep, YmodemTypes
<1>2. CASE pc = "idle"
  <2>1. Only(toDevice', Rests) /\ Head(toDevice) \in Rests
    BY <1>1, <1>2, OnlyTail DEF Lockstep, AtIdle
  <2>2. stored' = stored /\ device' # "running"
    BY <1>2, <2>1, JunkMessages, HearsJunk DEF Lockstep, AtIdle, YmodemTypes
  <2>3. AtIdle'
    BY <1>1, <1>2, <2>1, <2>2 DEF Lockstep, AtIdle
  <2>4. Sequential'
    BY <1>1, <2>2 DEF Sequential
  <2> QED
    BY <1>1, <1>2, <2>3, <2>4 DEF Lockstep
<1>3. CASE pc = "failed"
  <2>1. Over' /\ Sequential'
    BY <1>1, <1>3, OverDevice DEF Lockstep, AtFailed
  <2>2. Only(toDevice, Rests) => Only(toDevice', Rests)
    BY <1>1, OnlyTail
  <2>3. AtFailed'
    BY <1>1, <1>3, <2>1, <2>2 DEF Lockstep, AtFailed
  <2> QED
    BY <1>1, <1>3, <2>1, <2>3 DEF Lockstep
<1>4. CASE pc = "done" /\ ~success
  <2>1. Over' /\ Sequential'
    BY <1>1, <1>4, OverDevice DEF Lockstep, AtDone
  <2> QED
    BY <1>1, <1>4, <2>1 DEF Lockstep, AtDone
<1>5. CASE pc = "done" /\ success
  <2>1. Finished
    BY <1>5 DEF Lockstep, AtDone
  <2>2. /\ stored' = stored /\ device' \in {"menu", "running"} /\ toDevice' = <<>>
    <3>1. Head(toDevice) \in {Byte("run"), Byte("bad")} /\ toDevice' = <<>>
      BY <1>1, <2>1, Short DEF Finished
    <3>2. Byte("run").kind = "run" /\ Byte("bad").kind = "bad"
      BY OtherFields DEF Keys
    <3> QED
      BY <2>1, <3>1, <3>2, HearsInMenu DEF Finished
  <2>3. Sequential'
    BY <1>1, <2>2 DEF Sequential
  <2>4. AtDone'
    BY <1>1, <1>5, <2>1, <2>2 DEF AtDone, Finished
  <2> QED
    BY <1>1, <1>5, <2>3, <2>4 DEF Lockstep
<1>6. pc \notin {"go", "endgo", "sent"}
  BY <1>1 DEF Lockstep, AtGo, AtEndgo, AtSent, Heard
<1> QED
  BY <1>2, <1>3, <1>4, <1>5, <1>6, PromptDevice, NameDevice, DataDevice, EotDevice, NullDevice
     DEF YmodemTypes, Steps

-----------------------------------------------------------------------------
\* A packet is lost or damaged.
LEMMA OnlyDamaged ==
  ASSUME NEW S, NEW s \in Seq(Messages), Only(s, S), s # <<>>, Byte("bad") \in S,
         NEW t, t = Tail(s) \/ t = <<Byte("bad")>> \o Tail(s)
  PROVE  Only(t, S)
<1>1. Tail(s) \in Seq(Messages) /\ Only(Tail(s), S)
  BY TailOf, OnlyTail
<1>2. Only(<<Byte("bad")>> \o Tail(s), S)
  BY <1>1, KeysIn, OnlyCons
<1> QED
  BY <1>1, <1>2

LEMMA LockstepDamage ==
  ASSUME YmodemTypes, Lockstep, Fault, toHost' = toHost, toDevice # <<>>,
         toDevice' = Tail(toDevice) \/ toDevice' = <<Byte("bad")>> \o Tail(toDevice)
  PROVE  Lockstep'
<1>1. /\ pc' = pc /\ blockno' = blockno /\ crcNak' = crcNak /\ attempt' = attempt
      /\ success' = success /\ device' = device /\ stored' = stored
      /\ faults' > 0 /\ toDevice \in Seq(Messages) /\ Tail(toDevice) \in Seq(Messages)
      /\ Len(toDevice) \in Nat \ {0} /\ Len(Tail(toDevice)) = Len(toDevice) - 1
      /\ Sequential /\ Sequential'
  BY FaultFrame, TailOf DEF YmodemTypes, Lockstep, Sequential
<1>2. Byte("bad") \in Messages /\ Byte("bad") \in Junk /\ Byte("bad") \in Rests /\ Byte("bad") \in Openers
  BY KeysIn DEF Junk, Rests, Openers
<1>3. Only(toDevice, Junk) => Only(toDevice', Junk)
  BY <1>1, <1>2, OnlyDamaged
<1>4. Only(toDevice, Rests) => Only(toDevice', Rests)
  BY <1>1, <1>2, OnlyDamaged
<1>5. Only(toDevice, Openers) => Only(toDevice', Openers)
  BY <1>1, <1>2, OnlyDamaged
<1>6. OneName(toDevice) => OneName(toDevice')
  BY <1>1, OneNameTail, OneNameCons
<1>7. Len(toDevice') <= Len(toDevice)
  <2>1. Len(<<Byte("bad")>> \o Tail(toDevice)) = 1 + Len(Tail(toDevice))
    <3>1. <<Byte("bad")>> \in Seq(Messages) /\ Len(<<Byte("bad")>>) = 1
      BY <1>2
    <3> QED
      BY <1>1, <3>1, ConcatProperties
  <2> QED
    BY <1>1, <2>1
<1>8. \A m : toDevice = <<m>> => toDevice' \in {<<>>, <<Byte("bad")>>}
  <2> SUFFICES ASSUME NEW m, toDevice = <<m>> PROVE toDevice' \in {<<>>, <<Byte("bad")>>}
    OBVIOUS
  <2>1. Tail(toDevice) = <<>> /\ <<Byte("bad")>> \o <<>> = <<Byte("bad")>>
    BY Short
  <2> QED
    BY <2>1
<1>9. \A m : Under(m) => Under(m)'
  BY <1>8 DEF Under
<1>10. \A S : ~Heard(S)
  BY DEF Heard
<1>11. CASE pc = "prompt"
  <2>1. attempt = 1 => FirstKeys'
    <3>1. attempt = 1 => FirstKeys
      BY <1>11 DEF Lockstep, AtPrompt
    <3> QED
      BY <1>1, <1>7, <3>1 DEF FirstKeys
  <2>2. AtPrompt'
    BY <1>1, <1>3, <1>11, <2>1 DEF Lockstep, AtPrompt
  <2> QED
    BY <1>1, <1>11, <2>2 DEF Lockstep
<1>12. CASE pc = "name"
  <2>1. /\ AtName /\ OneName(toDevice)
        /\ toHost = <<>> \/ (toHost # <<>> /\ Head(toHost) \in Garbled)
    BY <1>10, <1>12 DEF Lockstep, AtName
  <2>2. attempt = 1 => Len(toDevice') <= 1 /\ toHost' = <<>>
    <3>1. attempt = 1 => Len(toDevice) <= 1 /\ toHost = <<>>
      BY <2>1 DEF AtName
    <3>2. Len(toDevice') \in Nat
      BY FaultTypes, LenProperties DEF YmodemTypes
    <3> QED
      BY <1>1, <1>7, <3>1, <3>2
  <2>3. AtName'
    BY <1>1, <1>6, <2>1, <2>2 DEF AtName
  <2> QED
    BY <1>1, <1>12, <2>3 DEF Lockstep
<1>13. CASE pc = "data"
  <2>1. AtData /\ Under(Block(blockno))
    BY <1>10, <1>13 DEF Lockstep, AtData
  <2>2. Under(Block(blockno))'
    BY <1>1, <1>8, <2>1 DEF Under
  <2>3. AtData'
    BY <1>1, <2>1, <2>2 DEF AtData
  <2> QED
    BY <1>1, <1>13, <2>3 DEF Lockstep
<1>14. CASE pc = "eot"
  <2>1. AtEot /\ Under(Byte("EOT"))
    BY <1>10, <1>14 DEF Lockstep, AtEot
  <2>2. AtEot'
    BY <1>1, <1>8, <2>1 DEF AtEot, Under
  <2> QED
    BY <1>1, <1>14, <2>2 DEF Lockstep
<1>15. CASE pc = "null"
  <2>1. AtNull /\ Under(Null)
    BY <1>10, <1>15 DEF Lockstep, AtNull
  <2>2. AtNull'
    BY <1>1, <1>8, <2>1 DEF AtNull, Under
  <2> QED
    BY <1>1, <1>15, <2>2 DEF Lockstep
<1>16. CASE pc = "idle"
  BY <1>1, <1>4, <1>16 DEF Lockstep, AtIdle
<1>17. CASE pc = "failed"
  BY <1>1, <1>3, <1>4, <1>5, <1>17 DEF Lockstep, AtFailed, Over
<1>18. CASE pc = "done" /\ success
  <2>1. Finished
    BY <1>18 DEF Lockstep, AtDone
  <2>2. Finished'
    BY <1>1, <1>8, <2>1 DEF Finished
  <2> QED
    BY <1>1, <1>18, <2>2 DEF Lockstep, AtDone
<1>19. CASE pc = "done" /\ ~success
  BY <1>1, <1>3, <1>5, <1>19 DEF Lockstep, AtDone, Over
<1>20. pc \notin {"go", "endgo", "sent"}
  BY DEF Lockstep, AtGo, AtEndgo, AtSent, Heard
<1> QED
  BY <1>11, <1>12, <1>13, <1>14, <1>15, <1>16, <1>17, <1>18, <1>19, <1>20 DEF YmodemTypes, Steps

\* A character is lost or damaged: what is left of toHost.
LEMMA LessHeard ==
  ASSUME YmodemTypes, toHost # <<>>,
         toHost' = Front(toHost) \/ toHost' = Append(Front(toHost), "noise")
  PROVE  /\ Len(toHost) = 1 => toHost' \in {<<>>, <<"noise">>}
         /\ toHost = <<"ACK", "CRC">> \/ toHost = <<"ACK", "noise">>
               => toHost' \in {<<"ACK">>, <<"ACK", "noise">>}
         /\ Len(toHost) # 1 => toHost' # <<>> /\ Head(toHost') = Head(toHost)
         /\ \A S : Len(toHost) # 1 /\ "noise" \in S /\ Only(Tail(toHost), S) => Only(Tail(toHost'), S)
<1>1. /\ toHost \in Seq(Answers) /\ "noise" \in Answers /\ Head(toHost) = toHost[1]
      /\ Len(toHost) \in Nat \ {0}
      /\ Tail(toHost) \in Seq(Answers) /\ Len(Tail(toHost)) = Len(toHost) - 1
      /\ \A i \in 1 .. Len(Tail(toHost)) : Tail(toHost)[i] = toHost[i + 1]
  BY TailOf DEF YmodemTypes, Answers
<1> DEFINE f == Front(toHost)
<1>2. /\ f \in Seq(Answers) /\ Len(f) = Len(toHost) - 1
      /\ \A i \in 1 .. Len(toHost) - 1 : f[i] = toHost[i]
  BY <1>1, FrontOf
<1>3. Len(toHost) = 1 => toHost' \in {<<>>, <<"noise">>}
  <2>1. Len(toHost) = 1 => f = <<>>
    BY <1>1, <1>2, EmptySeq
  <2>2. Append(<<>>, "noise") = <<"noise">>
    BY Short
  <2> QED
    BY <2>1, <2>2
<1>4. toHost = <<"ACK", "CRC">> \/ toHost = <<"ACK", "noise">>
               => toHost' \in {<<"ACK">>, <<"ACK", "noise">>}
  <2>1. Front(<<"ACK", "CRC">>) = <<"ACK">> /\ Front(<<"ACK", "noise">>) = <<"ACK">>
        /\ Append(<<"ACK">>, "noise") = <<"ACK", "noise">>
    BY Short
  <2> QED
    BY <2>1
<1> HIDE DEF f
<1>5. ASSUME Len(toHost) # 1 PROVE f # <<>> /\ Head(f) = Head(toHost)
  <2>1. Len(f) # 0 /\ 1 \in 1 .. Len(toHost) - 1
    BY <1>1, <1>2, <1>5
  <2>2. f # <<>>
    BY <2>1, EmptySeq
  <2>3. Head(f) = f[1]
    BY <1>2, <2>2, TailOf
  <2> QED
    BY <1>1, <1>2, <2>1, <2>2, <2>3
<1>6. /\ Append(f, "noise") # <<>>
      /\ f # <<>> => Head(Append(f, "noise")) = Head(f)
      /\ f # <<>> => Tail(Append(f, "noise")) = Append(Tail(f), "noise")
  BY <1>1, <1>2, AppendProperties, HeadTailAppend
<1>7. ASSUME NEW S, Len(toHost) # 1, "noise" \in S, Only(Tail(toHost), S)
      PROVE  Only(Tail(toHost'), S)
  <2>1. /\ Tail(f) \in Seq(Answers) /\ Len(Tail(f)) = Len(f) - 1
        /\ \A i \in 1 .. Len(Tail(f)) : Tail(f)[i] = f[i + 1]
    BY <1>2, <1>5, <1>7, TailOf
  <2>2. Only(Tail(f), S)
    <3> SUFFICES ASSUME NEW i \in 1 .. Len(Tail(f)) PROVE Tail(f)[i] \in S
      BY DEF Only
    <3>1. i \in 1 .. Len(Tail(toHost)) /\ i + 1 \in 1 .. Len(toHost) - 1
      BY <1>1, <1>2, <2>1
    <3> QED
      BY <1>1, <1>2, <1>7, <2>1, <3>1 DEF Only
  <2>3. Only(Append(Tail(f), "noise"), S)
    BY <1>1, <1>7, <2>1, <2>2, OnlyAppend
  <2>4. toHost' = f \/ toHost' = Append(f, "noise")
    BY DEF f
  <2> QED
    BY <1>5, <1>6, <1>7, <2>2, <2>3, <2>4
<1> QED
  BY <1>3, <1>4, <1>5, <1>6, <1>7 DEF f

LEMMA LockstepGarble ==
  ASSUME YmodemTypes, Lockstep, Fault, toDevice' = toDevice, toHost # <<>>,
         toHost' = Front(toHost) \/ toHost' = Append(Front(toHost), "noise")
  PROVE  Lockstep'
<1>1. /\ pc' = pc /\ blockno' = blockno /\ crcNak' = crcNak /\ attempt' = attempt
      /\ success' = success /\ device' = device /\ stored' = stored
      /\ faults' > 0 /\ toHost \in Seq(Answers) /\ Len(toHost) \in Nat \ {0}
      /\ Sequential /\ Sequential'
  BY FaultFrame, TailOf DEF YmodemTypes, Lockstep, Sequential
<1>2. /\ Len(toHost) = 1 => toHost' \in {<<>>, <<"noise">>}
      /\ toHost = <<"ACK", "CRC">> \/ toHost = <<"ACK", "noise">>
               => toHost' \in {<<"ACK">>, <<"ACK", "noise">>}
      /\ Len(toHost) # 1 => toHost' # <<>> /\ Head(toHost') = Head(toHost)
      /\ \A S : Len(toHost) # 1 /\ "noise" \in S /\ Only(Tail(toHost), S) => Only(Tail(toHost'), S)
  BY LessHeard
<1>3. /\ Len(<<"ACK">>) = 1 /\ Len(<<"NAK">>) = 1 /\ Len(<<"CRC">>) = 1 /\ Len(<<"noise">>) = 1
      /\ Len(<<>>) = 0 /\ Head(<<"noise">>) = "noise" /\ <<"noise">> # <<>>
  OBVIOUS
<1>4. \A m : ~Under(m)
  BY DEF Under
<1>5. "noise" \in Garbled
  BY DEF Garbled
<1>6. CASE pc = "prompt"
  <2>1. AtPrompt
    BY <1>6 DEF Lockstep
  <2>2. \/ toHost' = <<>>
        \/ toHost' # <<>> /\ Head(toHost') \in Garbled
        \/ /\ toHost' # <<>> /\ Head(toHost') = "CRC" /\ Only(Tail(toHost'), Garbled)
           /\ device \in {"menu", "pressed", "name"}
    <3>1. CASE Len(toHost) = 1
      BY <1>2, <1>3, <1>5, <3>1
    <3>2. CASE Len(toHost) # 1
      BY <1>2, <1>5, <2>1, <3>2 DEF AtPrompt
    <3> QED
      BY <3>1, <3>2
  <2>3. attempt = 1 => FirstKeys'
    <3>1. attempt = 1 => FirstKeys
      BY <2>1 DEF AtPrompt
    <3> QED
      BY <1>1, <1>2, <1>3, <3>1 DEF FirstKeys
  <2>4. AtPrompt'
    BY <1>1, <2>1, <2>2, <2>3 DEF AtPrompt
  <2> QED
    BY <1>1, <1>6, <2>4 DEF Lockstep
<1>7. CASE pc = "name"
  <2>1. AtName
    BY <1>7 DEF Lockstep
  <2>2. CASE OneName(toDevice) /\ Head(toHost) \in Garbled
    <3>1. toHost' = <<>> \/ (toHost' # <<>> /\ Head(toHost') \in Garbled)
      BY <1>1, <1>2, <1>3, <1>5, <2>2
    <3>2. AtName'
      BY <1>1, <2>1, <2>2, <3>1 DEF AtName
    <3> QED
      BY <1>1, <1>7, <3>2 DEF Lockstep
  <2>3. CASE Heard(Invited) /\ device = "data"
    <3>1. toHost' \in {<<>>, <<"noise">>, <<"ACK">>, <<"ACK", "noise">>}
      BY <1>2, <1>3, <2>3 DEF Heard, Invited
    <3>2. OneName(toDevice')
      BY <2>3, OnlyEmpty DEF Heard, OneName
    <3>3. toHost' = <<>> \/ (toHost' # <<>> /\ Head(toHost') \in Garbled) \/ toHost' \in Invited
      BY <1>3, <1>5, <3>1 DEF Invited
    <3>4. AtName'
      BY <1>1, <2>1, <2>3, <3>2, <3>3 DEF AtName, Heard
    <3> QED
      BY <1>1, <1>7, <3>4 DEF Lockstep
  <2> QED
    BY <2>1, <2>2, <2>3 DEF AtName
<1>8. CASE pc = "go"
  <2>1. AtGo /\ toDevice = <<>> /\ toHost \in {<<"CRC">>, <<"noise">>}
    BY <1>8 DEF Lockstep, AtGo, Heard
  <2>2. toHost' \in {<<>>, <<"noise">>}
    BY <1>2, <1>3, <2>1
  <2>3. AtGo'
    BY <1>1, <2>1, <2>2 DEF AtGo, Heard
  <2> QED
    BY <1>1, <1>8, <2>3 DEF Lockstep
<1>9. CASE pc = "data"
  <2>1. AtData /\ toDevice = <<>> /\ toHost \in {<<"ACK">>, <<"NAK">>, <<"noise">>}
    BY <1>4, <1>9 DEF Lockstep, AtData, Heard, Unheard
  <2>2. toHost' \in {<<>>, <<"noise">>}
    BY <1>2, <1>3, <2>1
  <2>3. AtData'
    BY <1>1, <2>1, <2>2 DEF AtData, Heard, Unheard, Under
  <2> QED
    BY <1>1, <1>9, <2>3 DEF Lockstep
<1>10. CASE pc = "eot"
  <2>1. /\ AtEot /\ toDevice = <<>>
        /\ \/ toHost \in Invited /\ device = "null"
           \/ toHost \in Unheard
    BY <1>4, <1>10 DEF Lockstep, AtEot, Heard
  <2>2. \/ toHost' \in {<<>>, <<"noise">>}
        \/ toHost' \in {<<"ACK">>, <<"ACK", "noise">>} /\ device = "null"
    BY <1>2, <1>3, <2>1 DEF Invited, Unheard
  <2>3. AtEot'
    BY <1>1, <2>1, <2>2 DEF AtEot, Heard, Unheard, Under, Invited
  <2> QED
    BY <1>1, <1>10, <2>3 DEF Lockstep
<1>11. CASE pc = "endgo"
  <2>1. AtEndgo /\ toDevice = <<>> /\ toHost \in {<<"CRC">>, <<"noise">>}
    BY <1>11 DEF Lockstep, AtEndgo, Heard
  <2>2. toHost' \in {<<>>, <<"noise">>}
    BY <1>2, <1>3, <2>1
  <2>3. AtEndgo'
    BY <1>1, <2>1, <2>2 DEF AtEndgo, Heard
  <2> QED
    BY <1>1, <1>11, <2>3 DEF Lockstep
<1>12. CASE pc = "null"
  <2>1. AtNull /\ toDevice = <<>> /\ toHost \in {<<"ACK">>, <<"NAK">>, <<"noise">>}
    BY <1>4, <1>12 DEF Lockstep, AtNull, Heard, Unheard
  <2>2. toHost' \in {<<>>, <<"noise">>}
    BY <1>2, <1>3, <2>1
  <2>3. AtNull'
    BY <1>1, <2>1, <2>2 DEF AtNull, Heard, Unheard, Under
  <2> QED
    BY <1>1, <1>12, <2>3 DEF Lockstep
<1>13. CASE pc = "idle"
  BY <1>1, <1>13 DEF Lockstep, AtIdle
<1>14. CASE pc = "sent"
  BY <1>1, <1>14 DEF Lockstep, AtSent
<1>15. CASE pc = "failed"
  BY <1>1, <1>15 DEF Lockstep, AtFailed, Over
<1>16. CASE pc = "done"
  BY <1>1, <1>16 DEF Lockstep, AtDone, Over, Finished
<1> QED
  BY <1>6, <1>7, <1>8, <1>9, <1>10, <1>11, <1>12, <1>13, <1>14, <1>15, <1>16 DEF YmodemTypes, Steps

-----------------------------------------------------------------------------
\* The device's C reaches a sender that waits for it.
LEMMA LockstepDevicePrompt ==
  ASSUME YmodemTypes, Lockstep, DevicePrompt, extra = 0, extra' = 0
  PROVE  Lockstep'
<1>1. /\ pc' = pc /\ blockno' = blockno /\ crcNak' = crcNak /\ attempt' = attempt
      /\ success' = success /\ device' = device /\ stored' = stored /\ toDevice' = toDevice
      /\ toHost' = Append(toHost, "CRC") /\ device = "name"
      /\ pc = "prompt" /\ toHost = <<>> /\ Sequential'
  BY DEF DevicePrompt, sender, Lockstep, Sequential
<1>2. toHost' = <<"CRC">> /\ Len(<<"CRC">>) = 1 /\ Head(<<"CRC">>) = "CRC" /\ Tail(<<"CRC">>) = <<>>
  BY <1>1, Short
<1>3. AtPrompt
  BY <1>1 DEF Lockstep
<1>4. AtPrompt'
  BY <1>1, <1>2, <1>3, OnlyEmpty DEF AtPrompt, FirstKeys
<1> QED
  BY <1>1, <1>4 DEF Lockstep

LEMMA LockstepGiveUp ==
  ASSUME YmodemTypes, Lockstep, GiveUp
  PROVE  Lockstep'
<1>1. /\ pc' = pc /\ blockno' = blockno /\ crcNak' = crcNak /\ attempt' = attempt
      /\ success' = success /\ device' = "menu" /\ stored' = stored
      /\ toDevice' = <<>> /\ toDevice = <<>> /\ toHost' = toHost
      /\ pc \in {"idle", "prompt", "done"} /\ (pc = "prompt" => toHost = <<>>) /\ Sequential'
      /\ device # "running" /\ device # "menu"
  BY DEF GiveUp, sender, line, Lockstep, Sequential
<1>2. Len(<<>>) = 0
  OBVIOUS
<1>3. CASE pc = "idle"
  BY <1>1, <1>3 DEF Lockstep, AtIdle
<1>4. CASE pc = "prompt"
  <2>1. AtPrompt'
    BY <1>1, <1>2, <1>4 DEF Lockstep, AtPrompt, FirstKeys
  <2> QED
    BY <1>1, <1>4, <2>1 DEF Lockstep
<1>5. CASE pc = "done"
  BY <1>1, <1>5 DEF Lockstep, AtDone, Over, Finished
<1> QED
  BY <1>1, <1>3, <1>4, <1>5

LEMMA LockstepStep ==
  YmodemTypes /\ LockInv /\ [Next]_vars => LockInv'
<1> SUFFICES ASSUME YmodemTypes, LockInv, [Next]_vars, extra' = 0 PROVE Lockstep'
  BY DEF LockInv
<1>1. CASE UNCHANGED vars
  <2>1. extra = 0
    BY <1>1 DEF vars, line
  <2>2. Lockstep
    BY <2>1 DEF LockInv
  <2> USE DEF vars, sender, bootloader, line
  <2>3. /\ AtIdle' <=> AtIdle
        /\ AtPrompt' <=> AtPrompt
        /\ AtName' <=> AtName
        /\ AtGo' <=> AtGo
    BY <1>1 DEF AtIdle, AtPrompt, FirstKeys, AtName, AtGo, Heard
  <2>4. /\ AtData' <=> AtData
        /\ AtEot' <=> AtEot
        /\ AtEndgo' <=> AtEndgo
        /\ AtNull' <=> AtNull
    BY <1>1 DEF AtData, AtEot, AtEndgo, AtNull, Under, Heard
  <2>5. /\ AtSent' <=> AtSent
        /\ AtFailed' <=> AtFailed
        /\ AtDone' <=> AtDone
        /\ Sequential' <=> Sequential
    BY <1>1 DEF AtSent, AtFailed, AtDone, Over, Finished, Sequential
  <2>6. pc' = pc
    BY <1>1
  <2> QED
    BY <2>2, <2>3, <2>4, <2>5, <2>6 DEF Lockstep
<1>2. CASE Start
  <2>1. extra = 0
    BY <1>2 DEF Start, line
  <2> QED
    BY <1>2, <2>1, LockstepStart DEF LockInv
<1>3. CASE Sender
  <2>1. extra = 0
    <3>1. PICK ch : Getchar(ch)
      BY <1>3 DEF Sender
    <3> QED
      BY <3>1, Reads DEF YmodemTypes
  <2> QED
    BY <1>3, <2>1, LockstepSender DEF LockInv
<1>4. CASE Return
  <2>1. extra = 0
    BY <1>4 DEF Return, line
  <2> QED
    BY <1>4, <2>1, LockstepReturn DEF LockInv
<1>5. CASE Device
  <2>1. extra = 0
    BY <1>5, DeviceFrame
  <2> QED
    BY <1>5, <2>1, LockstepDevice DEF LockInv
<1>6. CASE DevicePrompt
  <2>1. extra = 0
    BY <1>6 DEF DevicePrompt, YmodemTypes
  <2> QED
    BY <1>6, <2>1, LockstepDevicePrompt DEF LockInv
<1>7. CASE GiveUp
  <2>1. extra = 0
    BY <1>7 DEF GiveUp, line
  <2> QED
    BY <1>7, <2>1, LockstepGiveUp DEF LockInv
<1>8. CASE Fault
  <2>1. extra = 0 /\ extra' = extra
    BY <1>8, FaultFrame DEF YmodemTypes
  <2>2. Lockstep
    BY <2>1 DEF LockInv
  <2>3. \/ /\ toDevice # <<>> /\ toHost' = toHost
           /\ toDevice' = Tail(toDevice) \/ toDevice' = <<Byte("bad")>> \o Tail(toDevice)
        \/ /\ toHost # <<>> /\ toDevice' = toDevice
           /\ toHost' = Front(toHost) \/ toHost' = Append(Front(toHost), "noise")
    BY <1>8, <2>1, FaultFrame
  <2> QED
    BY <1>8, <2>2, <2>3, LockstepDamage, LockstepGarble
<1> QED
  BY <1>1, <1>2, <1>3, <1>4, <1>5, <1>6, <1>7, <1>8 DEF Next, Done

LEMMA InitLockstep == Init => LockInv
BY OnlyEmpty DEF Init, LockInv, Lockstep, Sequential, AtIdle

\* Sender and device stay at the same packet while no stray answer is read.
THEOREM UploadInLockstep == Spec => []LockInv
<1>1. Init => LockInv
  BY InitLockstep
<1>2. YmodemTypes /\ LockInv /\ [Next]_vars => LockInv'
  BY LockstepStep
<1> QED
  BY <1>1, <1>2, UploadTyped, PTL DEF Spec

\* ymodem_send fails after its first block only because of the line: for a file
\* of any length, in either attempt.
THEOREM CleanUploadsSucceed == Spec => []CleanUploadSucceeds
<1>1. YmodemTypes /\ LockInv => CleanUploadSucceeds
  <2> SUFFICES ASSUME YmodemTypes, LockInv, pc = "failed", blockno > 0, extra = 0
               PROVE  faults > 0
    BY DEF CleanUploadSucceeds, YmodemTypes
  <2> QED
    BY DEF LockInv, Lockstep, AtFailed
<1> QED
  BY <1>1, UploadTyped, UploadInLockstep, PTL

-----------------------------------------------------------------------------
(***************************************************************************)
(* No packet is lost or damaged, but the sender may read what it likes:    *)
(* the device still gets every packet the sender sends, in order.          *)
(***************************************************************************)
\* Where in the upload a message belongs: packet 0, the blocks, the EOT, the
\* empty packet, the order to run; other messages are at no place.
Pos(m) == IF m.kind = "name" THEN 0
          ELSE IF m.kind = "block" THEN m.data
          ELSE IF m.kind = "EOT" THEN Blocks + 1
          ELSE IF m.kind = "null" THEN Blocks + 2
          ELSE IF m.kind = "run" THEN Blocks + 3
          ELSE Blocks + 5

\* Where the sender is, and whether the device has got there.
Place == IF pc = "data" THEN blockno
         ELSE IF pc \in {"eot", "endgo"} THEN Blocks + 1
         ELSE IF pc \in {"null", "sent"} THEN Blocks + 2
         ELSE IF pc = "done" THEN Blocks + 3
         ELSE 0
Reached(d, dev, sto) ==
  /\ Len(sto) = (IF d <= Blocks THEN d ELSE Blocks)
  /\ \A n \in 1 .. Len(sto) : sto[n] = n
  /\ dev = IF d <= Blocks THEN "data"
           ELSE IF d = Blocks + 1 THEN "null"
           ELSE IF d = Blocks + 2 THEN "menu"
           ELSE "running"

\* A sequence of messages from place d to place p without a gap.
Chain(s, d, p) ==
  /\ \A i \in 1 .. Len(s) : Pos(s[i]) \in 0 .. Blocks + 3
  /\ s # <<>> => Pos(s[1]) \in {d, d + 1} /\ Pos(s[Len(s)]) = p
  /\ s = <<>> => p = d
  /\ \A i \in 1 .. Len(s) - 1 : Pos(s[i + 1]) \in {Pos(s[i]), Pos(s[i]) + 1}

\* What an attempt may find in front of its own packet 0.
Pre == {Byte("c"), Byte("1"), Byte("CAN"), Name}
\* The keys come in pairs.
Pairs(s) ==
  /\ Len(s) > 0 => s[Len(s)] # Byte("c")
  /\ \A i \in 1 .. Len(s) - 1 : s[i] = Byte("c") <=> s[i + 1] = Byte("1")
KeysLast(s) ==
  \/ s = <<>>
  \/ s = <<Byte("1")>>
  \/ Len(s) >= 2 /\ s[Len(s) - 1] = Byte("c") /\ s[Len(s)] = Byte("1")
\* What is said of the keys and the device: a device that has seen the c has the
\* 1 in front of it, and a device in its menu does not.
Keyed(s, dev) ==
  /\ Pairs(s)
  /\ dev = "pressed" => s # <<>> /\ Head(s) = Byte("1")
  /\ dev = "menu" /\ s # <<>> => Head(s) # Byte("1")
\* Behind a c, and before a device that waits for a file, is no data.
Loose(s, dev) ==
  /\ Keyed(s, dev)
  /\ \A i, j \in 1 .. Len(s) : i <= j /\ s[i] = Byte("c") => s[j] \in Pre
  /\ dev \in {"pressed", "name"} => Only(s, Pre)
\* A packet 0 sent behind s is the start of a file for the device.
Ready(s, dev, sto) ==
  /\ Keyed(s, dev) /\ KeysLast(s) /\ Only(s, Pre)
  /\ dev \in {"menu", "pressed", "name", "data"}
  /\ dev = "data" => sto = <<>>
  /\ s = <<>> => dev \in {"name", "data"}

\* Everything between the device and the sender at place p.
Alive(p, s, dev, sto) ==
  \/ \E d \in 0 .. Blocks + 3 : Reached(d, dev, sto) /\ Chain(s, d, p)
  \/ \E u, v \in Seq(Messages) : /\ s = u \o v /\ Ready(u, dev, sto)
                                 /\ v # <<>> /\ v[1] = Name /\ Chain(v, 0, p)

\* In the first attempt nothing of an earlier one is left: the c is the first
\* message, and gone when the device acknowledges something.
Gone(s, dev) == (\A i \in 1 .. Len(s) : s[i] # Byte("c")) /\ dev \notin {"pressed", "name"}
FirstAttempt ==
  /\ Loose(toDevice, device)
  /\ \A i \in 1 .. Len(toDevice) : toDevice[i] = Byte("c") => i = 1 /\ device = "menu"
  /\ \/ pc \in {"go", "data", "eot", "endgo", "null", "sent"}
     \/ \E i \in 1 .. Len(toHost) : toHost[i] = "ACK"
     => Gone(toDevice, device)

Active == pc \in Steps \ {"prompt"} \/ pc = "sent" \/ (pc = "done" /\ success)

Undamaged ==
  /\ ~(pc = "done" /\ success) =>
        device # "running" /\ \A i \in 1 .. Len(toDevice) : toDevice[i] # Byte("run")
  /\ pc = "idle" => /\ Loose(toDevice, device)
                    /\ attempt = 0 => device = "menu" /\ toDevice = <<>>
  /\ attempt = 1 => FirstAttempt
  /\ pc = "prompt" =>
        /\ Loose(toDevice, device) /\ KeysLast(toDevice)
        /\ toHost # <<>> /\ Head(toHost) = "CRC" => Ready(toDevice, device, stored)
  /\ Active => Alive(Place, toDevice, device, stored)

UndamagedInv == damaged = 0 => Undamaged

\* The keys are told apart from everything else.
LEMMA KeysApart ==
  /\ Byte("c") # Byte("1") /\ Byte("c") # Byte("CAN") /\ Byte("c") # Byte("run")
  /\ Byte("1") # Byte("CAN") /\ Byte("1") # Byte("run") /\ Byte("CAN") # Byte("run")
  /\ Byte("EOT") # Byte("c") /\ Byte("EOT") # Byte("1") /\ Byte("EOT") # Byte("run")
  /\ \A k \in Keys : Name # Byte(k) /\ Null # Byte(k)
  /\ \A k \in Keys : \A n \in 1 .. Blocks : Block(n) # Byte(k)
<1>1. "block" \notin Keys /\ "name" \notin Keys /\ "null" \notin Keys
  BY DEF Keys
<1>2. \A k \in Keys : Byte(k).kind = k
  BY OtherFields
<1>3. \A n \in 1 .. Blocks : Block(n).kind = "block"
  BY BlockFields
<1>4. \A k \in Keys : \A n \in 1 .. Blocks : Block(n) # Byte(k)
  BY <1>1, <1>2, <1>3
<1>5. \A k \in Keys : Name # Byte(k) /\ Null # Byte(k)
  BY <1>1, <1>2, OtherFields
<1>6. /\ Byte("c").kind = "c" /\ Byte("1").kind = "1" /\ Byte("CAN").kind = "CAN"
      /\ Byte("run").kind = "run" /\ Byte("EOT").kind = "EOT"
  BY <1>2 DEF Keys
<1> QED
  BY <1>4, <1>5, <1>6

LEMMA KindsInverse ==
  ASSUME NEW m \in Messages
  PROVE  /\ \A k \in Keys : m.kind = k => m = Byte(k)
         /\ m.kind = "name" => m = Name
         /\ m.kind = "null" => m = Null
         /\ m.kind = "block" => m.data \in 1 .. Blocks /\ m = Block(m.data)
         /\ m.kind \in Keys \cup {"name", "null", "block"}
<1>1. "block" \notin Keys /\ "name" \notin Keys /\ "null" \notin Keys
  BY DEF Keys
<1>2. CASE m = Name \/ m = Null
  BY <1>1, <1>2, OtherFields
<1>3. CASE \E n \in 1 .. Blocks : m = Block(n)
  BY <1>1, <1>3, BlockFields
<1>4. CASE \E k \in Keys : m = Byte(k)
  BY <1>1, <1>4, OtherFields
<1> QED
  BY <1>2, <1>3, <1>4, MessageKinds

\* The place of each message, and the message of each place.
LEMMA Places ==
  /\ Pos(Name) = 0 /\ Pos(Null) = Blocks + 2 /\ Pos(Byte("EOT")) = Blocks + 1
  /\ Pos(Byte("run")) = Blocks + 3
  /\ \A n \in 1 .. Blocks : Pos(Block(n)) = n
  /\ \A k \in {"c", "1", "CAN", "bad"} : Pos(Byte(k)) = Blocks + 5
<1>1. \A k \in Keys : Byte(k).kind = k
  BY OtherFields
<1>2. \A k \in {"c", "1", "CAN", "bad"} : k \in Keys
  BY DEF Keys
<1>3. "EOT" \in Keys /\ "run" \in Keys
  BY DEF Keys
<1>4. \A n \in 1 .. Blocks : Pos(Block(n)) = n
  BY BlockFields DEF Pos
<1>5. Pos(Name) = 0 /\ Pos(Null) = Blocks + 2
  BY OtherFields DEF Pos
<1>6. Pos(Byte("EOT")) = Blocks + 1 /\ Pos(Byte("run")) = Blocks + 3
  BY <1>1, <1>3 DEF Pos
<1>7. \A k \in {"c", "1", "CAN", "bad"} : Pos(Byte(k)) = Blocks + 5
  BY <1>1, <1>2 DEF Pos
<1> QED
  BY <1>4, <1>5, <1>6, <1>7

LEMMA AtPlace ==
  ASSUME NEW m \in Messages
  PROVE  /\ Pos(m) \in Nat
         /\ Pos(m) = 0 => m = Name
         /\ Pos(m) \in 1 .. Blocks => m = Block(Pos(m))
         /\ Pos(m) = Blocks + 1 => m = Byte("EOT")
         /\ Pos(m) = Blocks + 2 => m = Null
         /\ Pos(m) = Blocks + 3 => m = Byte("run")
         /\ Pos(m) = Blocks + 5 => m \in {Byte("c"), Byte("1"), Byte("CAN"), Byte("bad")}
         /\ Pos(m) \in 0 .. Blocks + 3 \/ Pos(m) = Blocks + 5
<1> USE Numbers
<1>1. CASE m = Name \/ m = Null
  BY <1>1, Places
<1>2. CASE \E n \in 1 .. Blocks : m = Block(n)
  BY <1>2, Places
<1>3. CASE \E k \in Keys : m = Byte(k)
  <2>1. PICK k \in Keys : m = Byte(k)
    BY <1>3
  <2>2. k \in {"c", "1", "CAN", "bad"} \/ k = "EOT" \/ k = "run"
    BY DEF Keys
  <2>3. k \in {"c", "1", "CAN", "bad"} => Pos(m) = Blocks + 5
    BY <2>1, Places
  <2>4. (k = "EOT" => Pos(m) = Blocks + 1) /\ (k = "run" => Pos(m) = Blocks + 3)
    BY <2>1, Places
  <2>5. CASE k \in {"c", "1", "CAN", "bad"}
    <3>1. m \in {Byte("c"), Byte("1"), Byte("CAN"), Byte("bad")}
      BY <2>1, <2>5
    <3> QED
      BY <2>3, <2>5, <3>1
  <2>6. CASE k = "EOT"
    BY <2>1, <2>4, <2>6
  <2>7. CASE k = "run"
    BY <2>1, <2>4, <2>7
  <2> QED
    BY <2>2, <2>5, <2>6, <2>7
<1> QED
  BY <1>1, <1>2, <1>3, MessageKinds

-----------------------------------------------------------------------------
\* Chains and pairs, when the first message goes and when one is added.
LEMMA ChainTail ==
  ASSUME NEW s \in Seq(Messages), NEW d \in Nat, NEW p, Chain(s, d, p), s # <<>>
  PROVE  /\ Pos(Head(s)) \in {d, d + 1} /\ Pos(Head(s)) \in 0 .. Blocks + 3
         /\ Chain(Tail(s), Pos(Head(s)), p)
<1>1. /\ Tail(s) \in Seq(Messages) /\ Len(Tail(s)) = Len(s) - 1 /\ Len(s) \in Nat \ {0}
      /\ \A i \in 1 .. Len(Tail(s)) : Tail(s)[i] = s[i + 1]
      /\ Head(s) = s[1]
  BY TailOf
<1>2. /\ Pos(s[1]) \in {d, d + 1} /\ Pos(s[Len(s)]) = p
      /\ \A i \in 1 .. Len(s) : Pos(s[i]) \in 0 .. Blocks + 3
      /\ \A i \in 1 .. Len(s) - 1 : Pos(s[i + 1]) \in {Pos(s[i]), Pos(s[i]) + 1}
  BY DEF Chain
<1>3. \A i \in 1 .. Len(Tail(s)) : Pos(Tail(s)[i]) \in 0 .. Blocks + 3
  BY <1>1, <1>2
<1>4. Tail(s) # <<>> =>
        Pos(Tail(s)[1]) \in {Pos(Head(s)), Pos(Head(s)) + 1} /\ Pos(Tail(s)[Len(Tail(s))]) = p
  <2> SUFFICES ASSUME Tail(s) # <<>>
               PROVE  /\ Pos(Tail(s)[1]) \in {Pos(Head(s)), Pos(Head(s)) + 1}
                      /\ Pos(Tail(s)[Len(Tail(s))]) = p
    OBVIOUS
  <2>1. Len(Tail(s)) \in Nat \ {0}
    BY <1>1, EmptySeq
  <2>2. Tail(s)[1] = s[2] /\ 1 \in 1 .. Len(s) - 1
    BY <1>1, <2>1
  <2>3. Tail(s)[Len(Tail(s))] = s[Len(s)]
    BY <1>1, <2>1
  <2>4. Pos(s[1 + 1]) \in {Pos(s[1]), Pos(s[1]) + 1}
    BY <1>2, <2>2
  <2> QED
    BY <1>1, <1>2, <2>2, <2>3, <2>4
<1>5. Tail(s) = <<>> => p = Pos(Head(s))
  <2>1. ASSUME Tail(s) = <<>> PROVE Len(s) = 1
    BY <2>1, SingleLast
  <2> QED
    BY <1>1, <1>2, <2>1
<1>6. \A i \in 1 .. Len(Tail(s)) - 1 : Pos(Tail(s)[i + 1]) \in {Pos(Tail(s)[i]), Pos(Tail(s)[i]) + 1}
  <2> SUFFICES ASSUME NEW i \in 1 .. Len(Tail(s)) - 1
               PROVE  Pos(Tail(s)[i + 1]) \in {Pos(Tail(s)[i]), Pos(Tail(s)[i]) + 1}
    OBVIOUS
  <2>1. Tail(s)[i + 1] = s[(i + 1) + 1] /\ Tail(s)[i] = s[i + 1] /\ i + 1 \in 1 .. Len(s) - 1
    BY <1>1
  <2> QED
    BY <1>2, <2>1
<1> QED
  BY <1>1, <1>2, <1>3, <1>4, <1>5, <1>6 DEF Chain

LEMMA ChainAppend ==
  ASSUME NEW s \in Seq(Messages), NEW d \in Nat, NEW p \in Nat, Chain(s, d, p),
         NEW m \in Messages, Pos(m) \in {p, p + 1}, Pos(m) \in 0 .. Blocks + 3
  PROVE  Chain(Append(s, m), d, Pos(m))
<1> DEFINE t == Append(s, m)
<1>1. /\ t \in Seq(Messages) /\ t # <<>> /\ Len(t) = Len(s) + 1 /\ Len(s) \in Nat
      /\ \A i \in 1 .. Len(s) : t[i] = s[i]
      /\ t[Len(s) + 1] = m
  BY AppendProperties, LenProperties
<1> HIDE DEF t
<1>2. \A i \in 1 .. Len(t) : Pos(t[i]) \in 0 .. Blocks + 3
  BY <1>1 DEF Chain
<1>3. Pos(t[1]) \in {d, d + 1}
  <2>1. CASE s = <<>>
    <3>1. Len(s) = 0
      BY <2>1
    <3> QED
      BY <1>1, <2>1, <3>1 DEF Chain
  <2>2. CASE s # <<>>
    <3>1. Len(s) \in Nat \ {0}
      BY <2>2, EmptySeq
    <3> QED
      BY <1>1, <2>2, <3>1 DEF Chain
  <2> QED
    BY <2>1, <2>2
<1>4. Pos(t[Len(t)]) = Pos(m)
  BY <1>1
<1>5. \A i \in 1 .. Len(t) - 1 : Pos(t[i + 1]) \in {Pos(t[i]), Pos(t[i]) + 1}
  <2> SUFFICES ASSUME NEW i \in 1 .. Len(t) - 1
               PROVE  Pos(t[i + 1]) \in {Pos(t[i]), Pos(t[i]) + 1}
    OBVIOUS
  <2>1. CASE i < Len(s)
    <3>1. i \in 1 .. Len(s) - 1 /\ t[i] = s[i] /\ t[i + 1] = s[i + 1]
      BY <1>1, <2>1
    <3> QED
      BY <3>1 DEF Chain
  <2>2. CASE i = Len(s)
    <3>1. t[i] = s[Len(s)] /\ t[i + 1] = m /\ s # <<>>
      BY <1>1, <2>2
    <3> QED
      BY <3>1 DEF Chain
  <2> QED
    BY <1>1, <2>1, <2>2
<1>6. t # <<>>
  BY <1>1
<1> QED
  BY <1>2, <1>3, <1>4, <1>5, <1>6 DEF Chain, t

LEMMA PairsTail ==
  ASSUME NEW s \in Seq(Messages), Pairs(s), s # <<>>
  PROVE  /\ Pairs(Tail(s))
         /\ Head(s) = Byte("c") => Tail(s) # <<>> /\ Head(Tail(s)) = Byte("1")
         /\ Tail(s) # <<>> /\ Head(Tail(s)) = Byte("1") => Head(s) = Byte("c")
<1>1. /\ Tail(s) \in Seq(Messages) /\ Len(Tail(s)) = Len(s) - 1 /\ Len(s) \in Nat \ {0}
      /\ \A i \in 1 .. Len(Tail(s)) : Tail(s)[i] = s[i + 1]
      /\ Head(s) = s[1]
  BY TailOf
<1>2. Tail(s) # <<>> => Len(Tail(s)) > 0 /\ Head(Tail(s)) = s[2]
  <2>1. Tail(s) # <<>> => Head(Tail(s)) = Tail(s)[1] /\ Len(Tail(s)) \in Nat \ {0}
    BY <1>1, TailOf
  <2>2. Tail(s) # <<>> => Tail(s)[1] = s[1 + 1]
    BY <1>1, <2>1
  <2>3. 1 + 1 = 2
    OBVIOUS
  <2> QED
    BY <2>1, <2>2, <2>3
<1>3. Tail(s) = <<>> => Len(s) = 1
  <2>1. ASSUME Tail(s) = <<>> PROVE Len(s) = 1
    BY <2>1, SingleLast
  <2> QED
    BY <2>1
<1>4. Pairs(Tail(s))
  <2>1. ASSUME Len(Tail(s)) > 0 PROVE Tail(s)[Len(Tail(s))] # Byte("c")
    <3>1. Tail(s)[Len(Tail(s))] = s[Len(s)]
      <4>1. Len(Tail(s)) \in 1 .. Len(Tail(s)) /\ Len(Tail(s)) + 1 = Len(s)
        BY <1>1, <2>1
      <4> QED
        BY <1>1, <4>1
    <3>2. Len(s) > 0
      BY <1>1
    <3> QED
      BY <3>1, <3>2 DEF Pairs
  <2>2. ASSUME NEW i \in 1 .. Len(Tail(s)) - 1
        PROVE  Tail(s)[i] = Byte("c") <=> Tail(s)[i + 1] = Byte("1")
    <3>1. Tail(s)[i + 1] = s[(i + 1) + 1] /\ Tail(s)[i] = s[i + 1] /\ i + 1 \in 1 .. Len(s) - 1
      BY <1>1
    <3> QED
      BY <3>1 DEF Pairs
  <2> QED
    BY <2>1, <2>2 DEF Pairs
<1>5. Head(s) = Byte("c") => Tail(s) # <<>>
  BY <1>1, <1>3 DEF Pairs
<1>6. Tail(s) # <<>> => (s[1] = Byte("c") <=> s[2] = Byte("1"))
  <2>1. Tail(s) # <<>> => 1 \in 1 .. Len(s) - 1
    BY <1>1, <1>2
  <2>2. \A i \in 1 .. Len(s) - 1 : s[i] = Byte("c") <=> s[i + 1] = Byte("1")
    BY DEF Pairs
  <2>3. 1 + 1 = 2
    OBVIOUS
  <2> QED
    BY <2>1, <2>2, <2>3
<1> QED
  BY <1>1, <1>2, <1>4, <1>5, <1>6

-----------------------------------------------------------------------------
\* How the device moves, whatever the message.
LEMMA DeviceMoves ==
  ASSUME YmodemTypes, Device, NEW m, m = Head(toDevice)
  PROVE  /\ device' = "pressed" => device = "menu" /\ m = Byte("c")
         /\ device' = "name" => (device = "pressed" /\ m = Byte("1")) \/ device = "name"
         /\ device' = "running" => device = "running" \/ m = Byte("run")
         /\ m = Byte("c") => /\ device = "menu" => device' = "pressed"
                             /\ device = "pressed" => device' = "menu"
                             /\ device \notin {"menu", "pressed"} => device' = device
         /\ \E s \in {<<>>, <<"ACK">>, <<"NAK">>, <<"CAN">>, <<"ACK", "CRC">>} :
               /\ toHost' = toHost \o s
               /\ s \in {<<"ACK">>, <<"ACK", "CRC">>} => device' \in {"data", "null", "menu"}
<1>1. /\ m \in Messages
      /\ m.kind = "c" <=> m = Byte("c")
      /\ m.kind = "1" <=> m = Byte("1")
      /\ m.kind = "run" <=> m = Byte("run")
  <2>1. m \in Messages
    BY DeviceFrame
  <2>2. Byte("c").kind = "c" /\ Byte("1").kind = "1" /\ Byte("run").kind = "run"
        /\ "c" \in Keys /\ "1" \in Keys /\ "run" \in Keys
    BY OtherFields DEF Keys
  <2> QED
    BY <2>1, <2>2, KindsInverse
<1>2. CASE device \in {"menu", "pressed", "running"}
  <2>1. toHost' = toHost \o <<>>
    BY <1>2, HearsInMenu, ConcatEmptySeq DEF YmodemTypes
  <2>2. <<>> # <<"ACK">> /\ <<>> # <<"ACK", "CRC">>
    BY Short
  <2>3. \E s \in {<<>>, <<"ACK">>, <<"NAK">>, <<"CAN">>, <<"ACK", "CRC">>} :
               /\ toHost' = toHost \o s
               /\ s \in {<<"ACK">>, <<"ACK", "CRC">>} => device' \in {"data", "null", "menu"}
    BY <2>1, <2>2
  <2>4. /\ device = "menu" => device' = IF m.kind = "c" THEN "pressed"
                                         ELSE IF m.kind = "run" THEN "running" ELSE "menu"
        /\ device = "pressed" => device' = IF m.kind = "1" THEN "name" ELSE "menu"
        /\ device = "running" => device' = "running"
    BY <1>2, HearsInMenu
  <2>5. Byte("c") # Byte("1")
    BY KeysApart
  <2> QED
    BY <1>1, <1>2, <2>3, <2>4, <2>5
<1>3. CASE device \in {"name", "data", "null"}
  <2>1. InTransfer(m)
    BY <1>3 DEF Device, InMenu
  <2> DEFINE R(s) == /\ toHost' = toHost \o s
                     /\ device' \in {"menu", "data", "null"} \/ (device' = device /\ s \in {<<>>, <<"NAK">>})
  <2>2. R(<<>>) \/ R(<<"ACK">>) \/ R(<<"NAK">>) \/ R(<<"CAN">>) \/ R(<<"ACK", "CRC">>)
    BY <2>1 DEF InTransfer, Answer, Ignore
  <2>3. <<>> # <<"ACK">> /\ <<>> # <<"ACK", "CRC">> /\ <<"NAK">> # <<"ACK">> /\ <<"NAK">> # <<"ACK", "CRC">>
    OBVIOUS
  <2>4. \E s \in {<<>>, <<"ACK">>, <<"NAK">>, <<"CAN">>, <<"ACK", "CRC">>} :
               /\ toHost' = toHost \o s
               /\ s \in {<<"ACK">>, <<"ACK", "CRC">>} => device' \in {"data", "null", "menu"}
    BY <2>2, <2>3
  <2>5. device' \in {"menu", "data", "null", device}
    BY <2>2
  <2>6. m = Byte("c") => device' = device
    <3>1. "c" \in Keys
      BY DEF Keys
    <3> QED
      BY <1>3, <3>1, HearsKey
  <2> QED
    BY <1>3, <2>4, <2>5, <2>6
<1> QED
  BY <1>2, <1>3 DEF YmodemTypes

LEMMA KeyedTail ==
  ASSUME YmodemTypes, Device, NEW s \in Seq(Messages), s # <<>>, Head(s) = Head(toDevice),
         Keyed(s, device)
  PROVE  Keyed(Tail(s), device')
<1>1. /\ Pairs(Tail(s))
      /\ Head(s) = Byte("c") => Tail(s) # <<>> /\ Head(Tail(s)) = Byte("1")
      /\ Tail(s) # <<>> /\ Head(Tail(s)) = Byte("1") => Head(s) = Byte("c")
  BY PairsTail DEF Keyed
<1>2. /\ device' = "pressed" => device = "menu" /\ Head(s) = Byte("c")
      /\ Head(s) = Byte("c") => /\ device = "menu" => device' = "pressed"
                                /\ device = "pressed" => device' = "menu"
                                /\ device \notin {"menu", "pressed"} => device' = device
  BY DeviceMoves
<1>3. device = "pressed" => Head(s) = Byte("1")
  BY DEF Keyed
<1>4. Byte("c") # Byte("1")
  BY KeysApart
<1> QED
  BY <1>1, <1>2, <1>3, <1>4 DEF Keyed

LEMMA LooseTail ==
  ASSUME YmodemTypes, Device, Loose(toDevice, device)
  PROVE  Loose(toDevice', device')
<1>1. /\ toDevice # <<>> /\ toDevice' = Tail(toDevice) /\ toDevice \in Seq(Messages)
      /\ Len(toDevice') = Len(toDevice) - 1 /\ Len(toDevice) \in Nat \ {0}
      /\ \A i \in 1 .. Len(toDevice') : toDevice'[i] = toDevice[i + 1]
      /\ Head(toDevice) = toDevice[1]
  BY DeviceFrame, TailOf DEF YmodemTypes
<1>2. Keyed(toDevice', device')
  BY <1>1, KeyedTail DEF Loose
<1>3. ASSUME NEW i \in 1 .. Len(toDevice'), NEW j \in 1 .. Len(toDevice'),
             i <= j, toDevice'[i] = Byte("c")
      PROVE  toDevice'[j] \in Pre
  <2>1. i + 1 \in 1 .. Len(toDevice) /\ j + 1 \in 1 .. Len(toDevice) /\ i + 1 <= j + 1
    BY <1>1, <1>3
  <2> QED
    BY <1>1, <1>3, <2>1 DEF Loose
<1>4. ASSUME device' \in {"pressed", "name"} PROVE Only(toDevice', Pre)
  <2>1. device \in {"pressed", "name"} \/ toDevice[1] = Byte("c")
    BY <1>1, <1>4, DeviceMoves
  <2>2. Only(toDevice, Pre)
    <3>1. CASE device \in {"pressed", "name"}
      BY <3>1 DEF Loose
    <3>2. CASE toDevice[1] = Byte("c")
      <4>1. 1 \in 1 .. Len(toDevice) /\ \A j \in 1 .. Len(toDevice) : 1 <= j
        BY <1>1
      <4> QED
        BY <3>2, <4>1 DEF Loose, Only
    <3> QED
      BY <2>1, <3>1, <3>2
  <2> QED
    BY <1>1, <2>2, OnlyTail
<1> QED
  BY <1>2, <1>3, <1>4 DEF Loose

LEMMA KeysLastTail ==
  ASSUME NEW s \in Seq(Messages), KeysLast(s), s # <<>>
  PROVE  /\ KeysLast(Tail(s))
         /\ Tail(s) = <<>> => Head(s) = Byte("1")
<1>1. /\ Tail(s) \in Seq(Messages) /\ Len(Tail(s)) = Len(s) - 1 /\ Len(s) \in Nat \ {0}
      /\ \A i \in 1 .. Len(Tail(s)) : Tail(s)[i] = s[i + 1]
      /\ Head(s) = s[1]
  BY TailOf
<1>2. CASE s = <<Byte("1")>>
  BY <1>2, Short DEF KeysLast
<1>3. CASE Len(s) >= 2 /\ s[Len(s) - 1] = Byte("c") /\ s[Len(s)] = Byte("1")
  <2>1. Tail(s) # <<>>
    BY <1>3, SingleLast
  <2>2. CASE Len(s) = 2
    <3>1. 1 \in 1 .. Len(Tail(s)) /\ 1 + 1 = 2
      BY <1>1, <2>2
    <3>2. Tail(s)[1] = Byte("1") /\ Len(Tail(s)) = 1
      BY <1>1, <1>3, <2>2, <3>1
    <3>3. <<Byte("1")>> \in Seq(Messages) /\ Len(<<Byte("1")>>) = 1 /\ <<Byte("1")>>[1] = Byte("1")
      BY KeysIn
    <3>4. \A i \in 1 .. 1 : Tail(s)[i] = <<Byte("1")>>[i]
      BY <3>2, <3>3
    <3>5. Tail(s) = <<Byte("1")>>
      BY <1>1, <3>2, <3>3, <3>4, SeqEqual
    <3> QED
      BY <2>1, <3>5 DEF KeysLast
  <2>3. CASE Len(s) > 2
    <3>1. /\ Len(Tail(s)) \in 1 .. Len(Tail(s)) /\ Len(Tail(s)) - 1 \in 1 .. Len(Tail(s))
          /\ Len(Tail(s)) + 1 = Len(s) /\ (Len(Tail(s)) - 1) + 1 = Len(s) - 1 /\ Len(Tail(s)) >= 2
      BY <1>1, <2>3
    <3>2. Tail(s)[Len(Tail(s))] = s[Len(s)] /\ Tail(s)[Len(Tail(s)) - 1] = s[Len(s) - 1]
      BY <1>1, <3>1
    <3> QED
      BY <1>3, <2>1, <3>1, <3>2 DEF KeysLast
  <2> QED
    BY <1>1, <1>3, <2>2, <2>3
<1> QED
  BY <1>2, <1>3 DEF KeysLast

LEMMA ReadyTail ==
  ASSUME YmodemTypes, Device, NEW s \in Seq(Messages), s # <<>>, Head(s) = Head(toDevice),
         Ready(s, device, stored)
  PROVE  Ready(Tail(s), device', stored')
<1>1. Keyed(Tail(s), device')
  BY KeyedTail DEF Ready
<1>2. KeysLast(Tail(s)) /\ (Tail(s) = <<>> => Head(s) = Byte("1"))
  BY KeysLastTail DEF Ready
<1>3. Only(Tail(s), Pre) /\ Head(s) \in Pre
  BY OnlyTail DEF Ready
<1>4. device \in {"menu", "pressed", "name", "data"} /\ (device = "data" => stored = <<>>)
  BY DEF Ready
<1>5. CASE Head(s) = Name
  <2>1. Byte("1") # Name
    BY KeysApart DEF Keys
  <2>2. device' \in {"menu", "data"} /\ (device' = "data" => stored' = <<>>)
    BY <1>4, <1>5, HearsOpener
  <2> QED
    BY <1>1, <1>2, <1>3, <1>5, <2>1, <2>2 DEF Ready
<1>6. CASE Head(s) = Byte("CAN")
  <2>1. Head(toDevice) \in Junk
    BY <1>6 DEF Junk
  <2>2. device' \in {"menu", "pressed", "name", "data"} /\ (device' = "data" => stored' = <<>>)
    BY <1>4, <2>1, HearsJunk
  <2>3. Byte("1") # Byte("CAN")
    BY KeysApart
  <2> QED
    BY <1>1, <1>2, <1>3, <1>6, <2>2, <2>3 DEF Ready
<1>7. CASE Head(s) = Byte("c")
  <2>1. Head(toDevice) \in Junk
    BY <1>7 DEF Junk
  <2>2. device' \in {"menu", "pressed", "name", "data"} /\ (device' = "data" => stored' = <<>>)
    BY <1>4, <2>1, HearsJunk
  <2>3. Byte("1") # Byte("c")
    BY KeysApart
  <2> QED
    BY <1>1, <1>2, <1>3, <1>7, <2>2, <2>3 DEF Ready
<1>8. CASE Head(s) = Byte("1")
  <2>1. device # "menu"
    BY <1>8 DEF Ready, Keyed
  <2>2. device' \in {"name", "data"} /\ (device' = "data" => stored' = <<>>)
    <3>1. CASE device = "pressed"
      <4>1. Byte("1").kind = "1"
        BY OtherFields DEF Keys
      <4> QED
        BY <1>8, <3>1, <4>1, HearsInMenu
    <3>2. CASE device \in {"name", "data"}
      <4>1. "1" \in Keys
        BY DEF Keys
      <4> QED
        BY <1>4, <1>8, <3>2, <4>1, HearsKey
    <3> QED
      BY <1>4, <2>1, <3>1, <3>2
  <2> QED
    BY <1>1, <1>2, <1>3, <2>2 DEF Ready
<1> QED
  BY <1>3, <1>5, <1>6, <1>7, <1>8 DEF Pre

LEMMA ReachedStep ==
  ASSUME YmodemTypes, Device, NEW d \in Nat, Reached(d, device, stored), d <= Blocks + 3,
         Pos(Head(toDevice)) \in {d, d + 1}, Pos(Head(toDevice)) \in 0 .. Blocks + 3
  PROVE  Reached(Pos(Head(toDevice)), device', stored')
<1> DEFINE m == Head(toDevice)
           p == Pos(m)
<1>0. m \in Messages /\ Blocks \in Nat \ {0} /\ stored \in Seq(0 .. Blocks)
  BY DeviceFrame, Numbers DEF YmodemTypes
<1>1. p \in {d, d + 1} /\ p \in 0 .. Blocks + 3 /\ p \in Nat
  BY <1>0, AtPlace
<1> HIDE DEF p
<1>2. CASE p = 0
  <2>1. m = Name /\ d = 0
    BY <1>0, <1>1, <1>2, AtPlace DEF p
  <2>2. device = "data" /\ Len(stored) = 0
    BY <1>0, <2>1 DEF Reached
  <2>3. stored = <<>>
    BY <1>0, <2>2, EmptySeq
  <2>4. device' = "data" /\ stored' = <<>>
    BY <2>1, <2>2, <2>3, HearsName
  <2>5. Len(<<>>) = 0
    OBVIOUS
  <2> QED
    BY <1>0, <1>2, <2>4, <2>5 DEF Reached, p
<1>3. CASE p \in 1 .. Blocks
  <2>1. m = Block(p)
    BY <1>0, <1>3, AtPlace DEF p
  <2>2. device = "data" /\ Len(stored) = d /\ \A n \in 1 .. Len(stored) : stored[n] = n
    BY <1>0, <1>1, <1>3 DEF Reached
  <2>3. CASE p = d + 1
    <3>1. p % Wrap = Expected
      BY <2>2, <2>3 DEF Expected
    <3>2. device' = "data" /\ stored' = Append(stored, p)
      BY <1>3, <2>1, <2>2, <3>1, HearsBlock
    <3>3. /\ Len(stored') = d + 1 /\ \A i \in 1 .. d : stored'[i] = stored[i]
          /\ stored'[d + 1] = p
      BY <1>0, <1>3, <2>2, <3>2, AppendProperties
    <3>4. Len(stored') = p /\ \A n \in 1 .. Len(stored') : stored'[n] = n
      BY <1>1, <2>2, <2>3, <3>3
    <3> QED
      BY <1>0, <1>3, <3>2, <3>4 DEF Reached, p
  <2>4. CASE p = d
    <3>1. p % Wrap = Previous
      BY <2>2, <2>4 DEF Previous
    <3>2. device' = "data" /\ stored' = stored
      BY <1>3, <2>1, <2>2, <3>1, HearsBlock
    <3> QED
      BY <1>0, <1>3, <2>2, <2>4, <3>2 DEF Reached, p
  <2> QED
    BY <1>1, <2>3, <2>4
<1>4. CASE p = Blocks + 1
  <2>1. m = Byte("EOT") /\ "EOT" \in Keys
    BY <1>0, <1>4, AtPlace DEF p, Keys
  <2>2. device \in {"data", "null"} /\ Len(stored) = Blocks /\ \A n \in 1 .. Len(stored) : stored[n] = n
    BY <1>0, <1>1, <1>4 DEF Reached
  <2>3. device' = "null" /\ stored' = stored
    BY <2>1, <2>2, HearsKey
  <2> QED
    BY <1>0, <1>4, <2>2, <2>3 DEF Reached, p
<1>5. CASE p = Blocks + 2
  <2>1. m = Null
    BY <1>0, <1>5, AtPlace DEF p
  <2>2. device \in {"menu", "null"} /\ Len(stored) = Blocks /\ \A n \in 1 .. Len(stored) : stored[n] = n
    BY <1>0, <1>1, <1>5 DEF Reached
  <2>3. device' = "menu" /\ stored' = stored
    <3>1. Null.kind = "null"
      BY OtherFields
    <3>2. CASE device = "menu"
      BY <2>1, <3>1, <3>2, HearsInMenu
    <3>3. CASE device = "null"
      BY <2>1, <3>3, HearsNull
    <3> QED
      BY <2>2, <3>2, <3>3
  <2> QED
    BY <1>0, <1>5, <2>2, <2>3 DEF Reached, p
<1>6. CASE p = Blocks + 3
  <2>1. m = Byte("run")
    BY <1>0, <1>6, AtPlace DEF p
  <2>2. device \in {"menu", "running"} /\ Len(stored) = Blocks /\ \A n \in 1 .. Len(stored) : stored[n] = n
    BY <1>0, <1>1, <1>6 DEF Reached
  <2>3. device' = "running" /\ stored' = stored
    <3>1. Byte("run").kind = "run"
      BY OtherFields DEF Keys
    <3> QED
      BY <2>1, <2>2, <3>1, HearsInMenu
  <2> QED
    BY <1>0, <1>6, <2>2, <2>3 DEF Reached, p
<1> QED
  BY <1>0, <1>1, <1>2, <1>3, <1>4, <1>5, <1>6

LEMMA HeadTailConcat ==
  ASSUME NEW S, NEW s \in Seq(S), NEW t \in Seq(S), s # <<>>
  PROVE  s \o t # <<>> /\ Head(s \o t) = Head(s) /\ Tail(s \o t) = Tail(s) \o t
<1> DEFINE c == s \o t
           b == Tail(s) \o t
<1>1. /\ Tail(s) \in Seq(S) /\ Len(Tail(s)) = Len(s) - 1 /\ Len(s) \in Nat \ {0}
      /\ \A i \in 1 .. Len(Tail(s)) : Tail(s)[i] = s[i + 1]
      /\ Head(s) = s[1]
  BY TailOf
<1>2. Len(t) \in Nat
  BY LenProperties
<1>3. /\ c \in Seq(S) /\ Len(c) = Len(s) + Len(t)
      /\ \A i \in 1 .. Len(s) + Len(t) : c[i] = IF i <= Len(s) THEN s[i] ELSE t[i - Len(s)]
  BY ConcatProperties
<1>4. /\ b \in Seq(S) /\ Len(b) = Len(Tail(s)) + Len(t)
      /\ \A i \in 1 .. Len(Tail(s)) + Len(t) :
            b[i] = IF i <= Len(Tail(s)) THEN Tail(s)[i] ELSE t[i - Len(Tail(s))]
  BY <1>1, ConcatProperties
<1>5. c # <<>>
  BY <1>3, ConcatEqualIffEmpty
<1> HIDE DEF b, c
<1>6. /\ Tail(c) \in Seq(S) /\ Len(Tail(c)) = Len(c) - 1 /\ Len(c) \in Nat \ {0}
      /\ \A i \in 1 .. Len(Tail(c)) : Tail(c)[i] = c[i + 1]
      /\ Head(c) = c[1]
  BY <1>3, <1>5, TailOf
<1>7. Head(c) = Head(s)
  BY <1>1, <1>2, <1>3, <1>6
<1>8. Len(Tail(c)) = Len(b)
  BY <1>1, <1>2, <1>3, <1>4, <1>6
<1>9. ASSUME NEW i \in 1 .. Len(b) PROVE Tail(c)[i] = b[i]
  <2>1. i \in 1 .. Len(Tail(s)) + Len(t) /\ i \in 1 .. Len(Tail(c)) /\ i + 1 \in 1 .. Len(s) + Len(t)
        /\ i \in Nat /\ Len(Tail(s)) = Len(s) - 1
    BY <1>1, <1>2, <1>4, <1>8
  <2>2. Tail(c)[i] = c[i + 1]
    BY <1>6, <2>1
  <2>3. CASE i <= Len(s) - 1
    <3>1. c[i + 1] = s[i + 1] /\ b[i] = Tail(s)[i] /\ i \in 1 .. Len(Tail(s))
      BY <1>1, <1>3, <1>4, <2>1, <2>3
    <3> QED
      BY <1>1, <2>2, <3>1
  <2>4. CASE ~(i <= Len(s) - 1)
    <3>1. c[i + 1] = t[(i + 1) - Len(s)] /\ b[i] = t[i - Len(Tail(s))]
      BY <1>1, <1>3, <1>4, <2>1, <2>4
    <3>2. (i + 1) - Len(s) = i - Len(Tail(s))
      BY <1>1, <2>1
    <3> QED
      BY <2>2, <3>1, <3>2
  <2> QED
    BY <2>3, <2>4
<1>10. Tail(c) = b
  BY <1>4, <1>6, <1>8, <1>9, SeqEqual
<1> QED
  BY <1>5, <1>7, <1>10 DEF b, c

LEMMA AliveDevice ==
  ASSUME YmodemTypes, Device, NEW p \in Nat, Alive(p, toDevice, device, stored)
  PROVE  Alive(p, toDevice', device', stored')
<1>1. toDevice # <<>> /\ toDevice' = Tail(toDevice) /\ toDevice \in Seq(Messages)
  BY DeviceFrame DEF YmodemTypes
<1>2. ASSUME NEW d \in 0 .. Blocks + 3, Reached(d, device, stored), Chain(toDevice, d, p)
      PROVE  Alive(p, toDevice', device', stored')
  <2>1. d \in Nat /\ d <= Blocks + 3
    BY Numbers
  <2>2. /\ Pos(Head(toDevice)) \in {d, d + 1} /\ Pos(Head(toDevice)) \in 0 .. Blocks + 3
        /\ Chain(Tail(toDevice), Pos(Head(toDevice)), p)
    BY <1>1, <1>2, <2>1, ChainTail
  <2>3. Reached(Pos(Head(toDevice)), device', stored')
    BY <1>2, <2>1, <2>2, ReachedStep
  <2> QED
    BY <1>1, <2>2, <2>3 DEF Alive
<1>3. ASSUME NEW u \in Seq(Messages), NEW v \in Seq(Messages), toDevice = u \o v,
             Ready(u, device, stored), v # <<>>, v[1] = Name, Chain(v, 0, p)
      PROVE  Alive(p, toDevice', device', stored')
  <2>1. CASE u = <<>>
    <3>1. toDevice = v
      BY <1>3, <2>1, ConcatEmptySeq
    <3>2. Head(toDevice) = Name
      BY <1>3, <3>1, TailOf
    <3>3. device \in {"name", "data"} /\ (device = "data" => stored = <<>>)
      BY <1>3, <2>1 DEF Ready
    <3>4. device' = "data" /\ stored' = <<>>
      BY <3>2, <3>3, HearsName
    <3>5. Reached(0, device', stored')
      <4>1. Len(<<>>) = 0
        OBVIOUS
      <4> QED
        BY <3>4, <4>1, Numbers DEF Reached
    <3>6. Chain(Tail(toDevice), 0, p)
      <4>1. Pos(Head(toDevice)) = 0
        BY <3>2, Places
      <4>2. Chain(toDevice, 0, p) /\ 0 \in Nat
        BY <1>3, <3>1
      <4> QED
        BY <1>1, <4>1, <4>2, ChainTail
    <3>7. 0 \in 0 .. Blocks + 3
      BY Numbers
    <3> QED
      BY <1>1, <3>5, <3>6, <3>7 DEF Alive
  <2>2. CASE u # <<>>
    <3>1. Head(toDevice) = Head(u) /\ Tail(toDevice) = Tail(u) \o v
      BY <1>3, <2>2, HeadTailConcat
    <3>2. Ready(Tail(u), device', stored')
      BY <1>3, <2>2, <3>1, ReadyTail
    <3>3. Tail(u) \in Seq(Messages)
      BY <2>2, TailOf
    <3> QED
      BY <1>1, <1>3, <3>1, <3>2, <3>3 DEF Alive
  <2> QED
    BY <2>1, <2>2
<1> QED
  BY <1>2, <1>3 DEF Alive

\* The sender sends the packet of its place again, or the next one.
LEMMA AliveSend ==
  ASSUME NEW s \in Seq(Messages), NEW p \in Nat, NEW dev, NEW sto, Alive(p, s, dev, sto),
         NEW m \in Messages, Pos(m) \in {p, p + 1}, Pos(m) \in 0 .. Blocks + 3
  PROVE  Alive(Pos(m), Append(s, m), dev, sto)
<1>1. ASSUME NEW d \in 0 .. Blocks + 3, Reached(d, dev, sto), Chain(s, d, p)
      PROVE  Alive(Pos(m), Append(s, m), dev, sto)
  <2>1. d \in Nat
    BY Numbers
  <2>2. Chain(Append(s, m), d, Pos(m))
    BY <1>1, <2>1, ChainAppend
  <2> QED
    BY <1>1, <2>2 DEF Alive
<1>2. ASSUME NEW u \in Seq(Messages), NEW v \in Seq(Messages), s = u \o v,
             Ready(u, dev, sto), v # <<>>, v[1] = Name, Chain(v, 0, p)
      PROVE  Alive(Pos(m), Append(s, m), dev, sto)
  <2>1. <<m>> \in Seq(Messages)
    OBVIOUS
  <2>2. Append(s, m) = u \o Append(v, m)
    <3>1. Append(s, m) = (u \o v) \o <<m>> /\ Append(v, m) = v \o <<m>>
      BY <1>2, AppendIsConcat
    <3>2. (u \o v) \o <<m>> = u \o (v \o <<m>>)
      BY <2>1, ConcatAssociative
    <3> QED
      BY <3>1, <3>2
  <2>3. Chain(Append(v, m), 0, Pos(m))
    BY <1>2, ChainAppend
  <2>4. Append(v, m) \in Seq(Messages) /\ Append(v, m) # <<>> /\ Append(v, m)[1] = Name
    <3>1. Len(v) \in Nat \ {0}
      BY <1>2, EmptySeq
    <3> QED
      BY <1>2, <3>1, AppendProperties
  <2> QED
    BY <1>2, <2>2, <2>3, <2>4 DEF Alive
<1> QED
  BY <1>1, <1>2 DEF Alive

LEMMA AliveStart ==
  ASSUME NEW s \in Seq(Messages), NEW dev, NEW sto, Ready(s, dev, sto)
  PROVE  Alive(0, Append(s, Name), dev, sto)
<1>1. <<Name>> \in Seq(Messages) /\ <<Name>> # <<>> /\ <<Name>>[1] = Name /\ Len(<<Name>>) = 1
  BY OtherFields
<1>2. Append(s, Name) = s \o <<Name>>
  BY OtherFields, AppendIsConcat
<1>3. Chain(<<Name>>, 0, 0)
  BY <1>1, Places, Numbers DEF Chain
<1> QED
  BY <1>1, <1>2, <1>3 DEF Alive

-----------------------------------------------------------------------------
\* A message that is no key goes behind what an attempt has sent.
Later == {"go", "data", "eot", "endgo", "null", "sent"}

LEMMA LooseAppend ==
  ASSUME NEW s \in Seq(Messages), NEW dev, Loose(s, dev),
         NEW m \in Messages, m # Byte("c"), m # Byte("1"), m \in Pre \/ Gone(s, dev)
  PROVE  Loose(Append(s, m), dev)
<1> DEFINE t == Append(s, m)
<1>1. /\ t \in Seq(Messages) /\ t # <<>> /\ Len(t) = Len(s) + 1 /\ Len(s) \in Nat
      /\ \A i \in 1 .. Len(s) : t[i] = s[i]
      /\ t[Len(s) + 1] = m
      /\ Head(t) = IF s = <<>> THEN m ELSE Head(s)
  BY AppendProperties, LenProperties, HeadTailAppend
<1> HIDE DEF t
<1>2. Pairs(t)
  <2>1. t[Len(t)] # Byte("c")
    BY <1>1
  <2>2. ASSUME NEW i \in 1 .. Len(t) - 1 PROVE t[i] = Byte("c") <=> t[i + 1] = Byte("1")
    <3>1. CASE i < Len(s)
      <4>1. i \in 1 .. Len(s) - 1 /\ t[i] = s[i] /\ t[i + 1] = s[i + 1]
        BY <1>1, <3>1
      <4> QED
        BY <4>1 DEF Loose, Keyed, Pairs
    <3>2. CASE i = Len(s)
      <4>1. t[i] = s[Len(s)] /\ t[i + 1] = m /\ Len(s) > 0
        BY <1>1, <3>2
      <4> QED
        BY <4>1 DEF Loose, Keyed, Pairs
    <3> QED
      BY <1>1, <3>1, <3>2
  <2> QED
    BY <2>1, <2>2 DEF Pairs
<1>3. Keyed(t, dev)
  BY <1>1, <1>2 DEF Loose, Keyed
<1>4. ASSUME NEW i \in 1 .. Len(t), NEW j \in 1 .. Len(t), i <= j, t[i] = Byte("c")
      PROVE  t[j] \in Pre
  <2>1. i \in 1 .. Len(s) /\ t[i] = s[i]
    BY <1>1, <1>4
  <2>2. CASE j \in 1 .. Len(s)
    BY <1>1, <1>4, <2>1, <2>2 DEF Loose
  <2>3. CASE j = Len(s) + 1
    BY <1>1, <1>4, <2>1, <2>3 DEF Gone
  <2> QED
    BY <1>1, <2>2, <2>3
<1>5. dev \in {"pressed", "name"} => Only(t, Pre)
  <2> SUFFICES ASSUME dev \in {"pressed", "name"} PROVE Only(t, Pre)
    OBVIOUS
  <2>1. m \in Pre /\ Only(s, Pre)
    BY DEF Gone, Loose
  <2> QED
    BY <2>1, OnlyAppend DEF t
<1> QED
  BY <1>3, <1>4, <1>5 DEF Loose, t

\* The keys that open an attempt.
LEMMA LooseStart ==
  ASSUME NEW s \in Seq(Messages), NEW dev, Loose(s, dev)
  PROVE  /\ Loose(s \o <<Byte("c"), Byte("1")>>, dev)
         /\ KeysLast(s \o <<Byte("c"), Byte("1")>>)
         /\ s \o <<Byte("c"), Byte("1")>> \in Seq(Messages)
         /\ Only(s, Messages \ {Byte("run")}) =>
               Only(s \o <<Byte("c"), Byte("1")>>, Messages \ {Byte("run")})
<1> DEFINE w == <<Byte("c"), Byte("1")>>
           t == s \o w
<1>1. w \in Seq(Messages) /\ Len(w) = 2 /\ w[1] = Byte("c") /\ w[2] = Byte("1") /\ w # <<>>
      /\ Head(w) = Byte("c")
  BY KeysIn
<1> HIDE DEF w
<1>2. /\ t \in Seq(Messages) /\ Len(t) = Len(s) + 2 /\ Len(s) \in Nat
      /\ \A i \in 1 .. Len(s) + 2 : t[i] = IF i <= Len(s) THEN s[i] ELSE w[i - Len(s)]
  <2>1. /\ t \in Seq(Messages) /\ Len(t) = Len(s) + Len(w) /\ Len(s) \in Nat
        /\ \A i \in 1 .. Len(s) + Len(w) : t[i] = IF i <= Len(s) THEN s[i] ELSE w[i - Len(s)]
    BY <1>1, ConcatProperties, LenProperties
  <2> HIDE DEF t
  <2> QED
    BY <1>1, <2>1
<1>3. /\ s = <<>> => Head(t) = Byte("c")
      /\ s # <<>> => Head(t) = Head(s)
      /\ t # <<>>
  BY <1>1, ConcatEmptySeq, HeadTailConcat
<1> HIDE DEF t
<1>4. /\ \A i \in 1 .. Len(s) : t[i] = s[i]
      /\ t[Len(s) + 1] = Byte("c") /\ t[Len(s) + 2] = Byte("1")
  <2>1. \A i \in 1 .. Len(s) : t[i] = s[i]
    BY <1>2
  <2>2. t[Len(s) + 1] = w[(Len(s) + 1) - Len(s)] /\ t[Len(s) + 2] = w[(Len(s) + 2) - Len(s)]
    BY <1>2
  <2>3. (Len(s) + 1) - Len(s) = 1 /\ (Len(s) + 2) - Len(s) = 2
    BY <1>2
  <2> QED
    BY <1>1, <2>1, <2>2, <2>3
<1>5. Byte("c") # Byte("1") /\ Byte("c") # Byte("run") /\ Byte("1") # Byte("run")
  BY KeysApart
<1>6. Pairs(t)
  <2>1. t[Len(t)] # Byte("c")
    BY <1>2, <1>4, <1>5
  <2>2. ASSUME NEW i \in 1 .. Len(t) - 1 PROVE t[i] = Byte("c") <=> t[i + 1] = Byte("1")
    <3>1. CASE i < Len(s)
      <4>1. i \in 1 .. Len(s) - 1 /\ t[i] = s[i] /\ t[i + 1] = s[i + 1]
        BY <1>2, <1>4, <3>1
      <4> QED
        BY <4>1 DEF Loose, Keyed, Pairs
    <3>2. CASE i = Len(s)
      <4>1. t[i] = s[Len(s)] /\ t[i + 1] = Byte("c") /\ Len(s) > 0
        BY <1>2, <1>4, <3>2
      <4> QED
        BY <1>5, <4>1 DEF Loose, Keyed, Pairs
    <3>3. CASE i = Len(s) + 1
      <4>1. i + 1 = Len(s) + 2
        BY <1>2, <3>3
      <4> QED
        BY <1>4, <3>3, <4>1
    <3> QED
      BY <1>2, <3>1, <3>2, <3>3
  <2> QED
    BY <2>1, <2>2 DEF Pairs
<1>7. Keyed(t, dev)
  BY <1>3, <1>5, <1>6 DEF Loose, Keyed
<1>8. ASSUME NEW i \in 1 .. Len(t), NEW j \in 1 .. Len(t), i <= j, t[i] = Byte("c")
      PROVE  t[j] \in Pre
  <2>1. CASE j \in 1 .. Len(s)
    <3>1. i \in 1 .. Len(s)
      BY <1>2, <1>8, <2>1
    <3> QED
      BY <1>4, <1>8, <2>1, <3>1 DEF Loose
  <2>2. CASE j = Len(s) + 1 \/ j = Len(s) + 2
    BY <1>4, <2>2 DEF Pre
  <2> QED
    BY <1>2, <2>1, <2>2
<1>9. dev \in {"pressed", "name"} => Only(t, Pre)
  <2> SUFFICES ASSUME dev \in {"pressed", "name"} PROVE Only(t, Pre)
    OBVIOUS
  <2>1. Only(s, Pre) /\ Byte("c") \in Pre /\ Byte("1") \in Pre
    BY DEF Loose, Pre
  <2> QED
    BY <2>1, KeysIn, OnlyPair DEF t, w
<1>10. KeysLast(t)
  <2>1. Len(t) >= 2 /\ Len(t) - 1 = Len(s) + 1 /\ Len(t) = Len(s) + 2
    BY <1>2
  <2> QED
    BY <1>4, <2>1 DEF KeysLast
<1>11. Only(s, Messages \ {Byte("run")}) => Only(t, Messages \ {Byte("run")})
  <2>1. Byte("c") \in Messages \ {Byte("run")} /\ Byte("1") \in Messages \ {Byte("run")}
    BY <1>5, KeysIn
  <2> QED
    BY <2>1, KeysIn, OnlyPair DEF t, w
<1> QED
  BY <1>2, <1>7, <1>8, <1>9, <1>10, <1>11 DEF Loose, t, w

\* What a step of the sender adds to what is under way.
LEMMA SenderSends ==
  ASSUME YmodemTypes, NEW ch, Getchar(ch),
         Prompt(ch) \/ NameAnswer(ch) \/ Go(ch) \/ DataAnswer(ch) \/ EotAnswer(ch)
           \/ EndGo(ch) \/ NullAnswer(ch)
  PROVE  /\ \/ toDevice' = toDevice
            \/ \E m \in Messages : /\ toDevice' = Append(toDevice, m)
                                   /\ m \notin {Byte("c"), Byte("1"), Byte("run")}
                                   /\ m = Name \/ pc \in Later
            \/ toDevice' = toDevice \o <<Byte("CAN"), Byte("CAN")>>
         /\ pc' \in Later => pc \in Later \/ (pc = "name" /\ toHost # <<>> /\ Head(toHost) = "ACK")
         /\ pc' = "prompt" => pc = "prompt" /\ toHost = <<>> /\ toHost' = <<>> /\ toDevice' = toDevice
         /\ pc \in Steps /\ pc' \in Steps \cup {"sent", "failed"}
<1> DEFINE Good(m) == m \in Messages /\ m \notin {Byte("c"), Byte("1"), Byte("run")}
<1>1. /\ Good(Name) /\ Good(Null) /\ Good(Byte("EOT"))
      /\ \A n \in 1 .. Blocks : Good(Block(n))
  <2>1. Name \in Messages /\ Null \in Messages /\ Byte("EOT") \in Messages
        /\ \A n \in 1 .. Blocks : Block(n) \in Messages
    BY OtherFields, KeysIn, BlockFields
  <2>2. "c" \in Keys /\ "1" \in Keys /\ "run" \in Keys
    BY DEF Keys
  <2> QED
    BY <2>1, <2>2, KeysApart
<1>2. CASE Prompt(ch)
  <2>1. CASE ch = "CRC" /\ SendName
    BY <1>1, <1>2, <2>1 DEF Prompt, SendName, Send, Steps, Later
  <2>2. CASE ch = TimedOut /\ pc' = pc /\ toDevice' = toDevice
    BY <1>2, <2>2, Reads DEF Prompt, Steps, Later, Answers, TimedOut
  <2>3. CASE Fail
    BY <1>2, <2>3 DEF Prompt, Fail, Steps, Later
  <2> QED
    BY <1>2, <2>1, <2>2, <2>3 DEF Prompt
<1>3. CASE NameAnswer(ch)
  <2>1. CASE ch = "ACK" /\ pc' = "go" /\ toDevice' = toDevice
    BY <1>3, <2>1, Reads DEF NameAnswer, Steps, Later, TimedOut
  <2>2. CASE SendName
    BY <1>1, <1>3, <2>2 DEF NameAnswer, SendName, Send, Steps, Later
  <2>3. CASE pc' = "failed" /\ toDevice' = toDevice \o <<Byte("CAN"), Byte("CAN")>>
    BY <1>3, <2>3 DEF NameAnswer, Steps, Later
  <2> QED
    BY <1>3, <2>1, <2>2, <2>3 DEF NameAnswer
<1>4. CASE Go(ch)
  <2>1. CASE ch = "CRC"
    <3>1. Good(Block(1))
      BY <1>1, Numbers
    <3> QED
      BY <1>4, <2>1, <3>1 DEF Go, Send, Steps, Later
  <2>2. CASE ch # "CRC"
    BY <1>1, <1>4, <2>2 DEF Go, SendName, Send, Steps, Later
  <2> QED
    BY <2>1, <2>2
<1>5. CASE DataAnswer(ch)
  <2>1. blockno \in 1 .. Blocks
    BY <1>5 DEF YmodemTypes, DataAnswer
  <2>2. CASE Advance
    <3>1. CASE blockno < Blocks
      <4>1. Good(Block(blockno + 1))
        BY <1>1, <2>1, <3>1, Numbers
      <4> QED
        BY <1>5, <2>2, <3>1, <4>1 DEF DataAnswer, Advance, Send, Steps, Later
    <3>2. CASE ~(blockno < Blocks)
      BY <1>1, <1>5, <2>2, <3>2 DEF DataAnswer, Advance, Send, Steps, Later
    <3> QED
      BY <3>1, <3>2
  <2>3. CASE Fail
    BY <1>5, <2>3 DEF DataAnswer, Fail, Steps, Later
  <2>4. CASE Send(Block(blockno)) /\ pc' = pc
    BY <1>1, <1>5, <2>1, <2>4 DEF DataAnswer, Send, Steps, Later
  <2> QED
    BY <1>5, <2>2, <2>3, <2>4 DEF DataAnswer
<1>6. CASE EotAnswer(ch)
  BY <1>1, <1>6 DEF EotAnswer, Fail, Send, Steps, Later
<1>7. CASE EndGo(ch)
  BY <1>1, <1>7 DEF EndGo, Fail, Send, Steps, Later
<1>8. CASE NullAnswer(ch)
  BY <1>1, <1>8 DEF NullAnswer, Fail, Send, Steps, Later
<1> QED
  BY <1>2, <1>3, <1>4, <1>5, <1>6, <1>7, <1>8

\* After packet 0 the sender sends the packet of its place again, or the next
\* one.
LEMMA SenderPlace ==
  ASSUME YmodemTypes, NEW ch,
         NameAnswer(ch) \/ Go(ch) \/ DataAnswer(ch) \/ EotAnswer(ch) \/ EndGo(ch) \/ NullAnswer(ch),
         pc' \in (Steps \ {"prompt"}) \cup {"sent"}
  PROVE  /\ pc \in Steps \ {"prompt"} /\ Place \in Nat /\ Place' \in Nat
         /\ \/ toDevice' = toDevice /\ Place' = Place
            \/ \E m \in Messages : /\ toDevice' = Append(toDevice, m)
                                   /\ Pos(m) \in {Place, Place + 1} /\ Pos(m) \in 0 .. Blocks + 3
                                   /\ Place' = Pos(m)
<1> USE Numbers
<1> DEFINE p == Place
           R == /\ Place \in Nat /\ Place' \in Nat
                /\ \/ toDevice' = toDevice /\ Place' = Place
                   \/ \E m \in Messages : /\ toDevice' = Append(toDevice, m)
                                          /\ Pos(m) \in {Place, Place + 1} /\ Pos(m) \in 0 .. Blocks + 3
                                          /\ Place' = Pos(m)
<1>1. Name \in Messages /\ Null \in Messages /\ Byte("EOT") \in Messages
  BY OtherFields, KeysIn
<1>2. pc \in Steps \ {"prompt"}
  BY DEF NameAnswer, Go, DataAnswer, EotAnswer, EndGo, NullAnswer, Steps
<1>3. p \in Nat
  BY DEF Place, YmodemTypes
<1>4. ASSUME pc \in Steps \ {"prompt"}, toDevice' = toDevice, Place' = p
      PROVE  R
  BY <1>3, <1>4
<1>5. ASSUME pc \in Steps \ {"prompt"}, NEW m \in Messages, toDevice' = Append(toDevice, m),
             Pos(m) \in {p, p + 1}, Pos(m) \in 0 .. Blocks + 3, Place' = Pos(m)
      PROVE  R
  <2>1. Place' \in Nat
    BY <1>5
  <2> QED
    BY <1>3, <1>5, <2>1
<1> HIDE DEF p, R
<1> SUFFICES R
  BY <1>2 DEF R
<1>6. CASE NameAnswer(ch)
  <2>1. pc = "name" /\ p = 0
    BY <1>6 DEF NameAnswer, Place, p
  <2>2. CASE pc' = "go" /\ toDevice' = toDevice
    BY <1>4, <2>1, <2>2 DEF Place, Steps
  <2>3. CASE SendName
    <3>1. Place' = 0 /\ toDevice' = Append(toDevice, Name)
      BY <2>3 DEF SendName, Send, Place
    <3> QED
      BY <1>1, <1>5, <2>1, <3>1, Places DEF Steps
  <2> QED
    BY <1>6, <2>2, <2>3 DEF NameAnswer, Steps
<1>7. CASE Go(ch)
  <2>1. pc = "go" /\ p = 0
    BY <1>7 DEF Go, Place, p
  <2>2. CASE ch = "CRC"
    <3>1. Place' = 1 /\ toDevice' = Append(toDevice, Block(1))
      BY <1>7, <2>2 DEF Go, Send, Place
    <3>2. Block(1) \in Messages /\ Pos(Block(1)) = 1
      BY BlockFields, Places
    <3> QED
      BY <1>5, <2>1, <3>1, <3>2 DEF Steps
  <2>3. CASE ch # "CRC"
    <3>1. Place' = 0 /\ toDevice' = Append(toDevice, Name)
      BY <1>7, <2>3 DEF Go, SendName, Send, Place
    <3> QED
      BY <1>1, <1>5, <2>1, <3>1, Places DEF Steps
  <2> QED
    BY <2>2, <2>3
<1>8. CASE DataAnswer(ch)
  <2>1. pc = "data" /\ p = blockno /\ blockno \in 1 .. Blocks
    BY <1>8 DEF DataAnswer, Place, p, YmodemTypes
  <2>2. CASE Advance
    <3>1. CASE blockno < Blocks
      <4>1. Place' = blockno + 1 /\ toDevice' = Append(toDevice, Block(blockno + 1))
        BY <2>1, <2>2, <3>1 DEF Advance, Send, Place
      <4>2. blockno + 1 \in 1 .. Blocks
        BY <2>1, <3>1
      <4>3. Block(blockno + 1) \in Messages /\ Pos(Block(blockno + 1)) = blockno + 1
        BY <4>2, BlockFields, Places
      <4> QED
        BY <1>5, <2>1, <4>1, <4>2, <4>3 DEF Steps
    <3>2. CASE ~(blockno < Blocks)
      <4>1. Place' = Blocks + 1 /\ toDevice' = Append(toDevice, Byte("EOT")) /\ blockno = Blocks
        BY <2>1, <2>2, <3>2 DEF Advance, Send, Place
      <4> QED
        BY <1>1, <1>5, <2>1, <4>1, Places DEF Steps
    <3> QED
      BY <3>1, <3>2
  <2>3. CASE Send(Block(blockno)) /\ pc' = pc /\ blockno' = blockno
    <3>1. Place' = blockno /\ toDevice' = Append(toDevice, Block(blockno))
      BY <2>1, <2>3 DEF Send, Place
    <3>2. Block(blockno) \in Messages /\ Pos(Block(blockno)) = blockno
      BY <2>1, BlockFields, Places
    <3> QED
      BY <1>5, <2>1, <3>1, <3>2 DEF Steps
  <2> QED
    BY <1>8, <2>2, <2>3 DEF DataAnswer, Fail, Steps
<1>9. CASE EotAnswer(ch)
  <2>1. pc = "eot" /\ p = Blocks + 1
    BY <1>9 DEF EotAnswer, Place, p
  <2>2. CASE pc' = "endgo" /\ toDevice' = toDevice
    BY <1>4, <2>1, <2>2 DEF Place, Steps
  <2>3. CASE Send(Byte("EOT")) /\ pc' = pc
    <3>1. Place' = Blocks + 1 /\ toDevice' = Append(toDevice, Byte("EOT"))
      BY <2>1, <2>3 DEF Send, Place
    <3> QED
      BY <1>1, <1>5, <2>1, <3>1, Places DEF Steps
  <2> QED
    BY <1>9, <2>2, <2>3 DEF EotAnswer, Fail, Steps
<1>10. CASE EndGo(ch)
  <2>1. pc = "endgo" /\ p = Blocks + 1
    BY <1>10 DEF EndGo, Place, p
  <2>2. pc' = "null" /\ toDevice' = Append(toDevice, Null)
    BY <1>10 DEF EndGo, Fail, Steps, Send
  <2>3. Place' = Blocks + 2
    BY <2>2 DEF Place
  <2> QED
    BY <1>1, <1>5, <2>1, <2>2, <2>3, Places DEF Steps
<1>11. CASE NullAnswer(ch)
  <2>1. pc = "null" /\ p = Blocks + 2
    BY <1>11 DEF NullAnswer, Place, p
  <2>2. CASE pc' = "sent" /\ toDevice' = toDevice
    BY <1>4, <2>1, <2>2 DEF Place, Steps
  <2>3. CASE Send(Null) /\ pc' = pc
    <3>1. Place' = Blocks + 2 /\ toDevice' = Append(toDevice, Null)
      BY <2>1, <2>3 DEF Send, Place
    <3> QED
      BY <1>1, <1>5, <2>1, <3>1, Places DEF Steps
  <2> QED
    BY <1>11, <2>2, <2>3 DEF NullAnswer, Fail, Steps
<1> QED
  BY <1>6, <1>7, <1>8, <1>9, <1>10, <1>11

\* What the sender sends keeps what is under way without a gap.
LEMMA SenderAlive ==
  ASSUME YmodemTypes, Undamaged, NEW ch, Getchar(ch),
         Prompt(ch) \/ NameAnswer(ch) \/ Go(ch) \/ DataAnswer(ch) \/ EotAnswer(ch)
           \/ EndGo(ch) \/ NullAnswer(ch),
         pc' \in (Steps \ {"prompt"}) \cup {"sent"}
  PROVE  Alive(Place', toDevice', device, stored)
<1>1. toDevice \in Seq(Messages)
  BY DEF YmodemTypes
<1>2. CASE Prompt(ch)
  <2>1. ch = "CRC" /\ toDevice' = Append(toDevice, Name) /\ pc = "prompt" /\ pc' = "name"
    BY <1>2 DEF Prompt, SendName, Send, Fail, Steps
  <2>2. toHost # <<>> /\ Head(toHost) = "CRC"
    BY <2>1, Reads DEF TimedOut
  <2>3. Ready(toDevice, device, stored)
    BY <2>1, <2>2 DEF Undamaged
  <2>4. Place' = 0
    BY <2>1 DEF Place
  <2>5. Alive(0, Append(toDevice, Name), device, stored)
    BY <1>1, <2>3, AliveStart
  <2> QED
    BY <2>1, <2>4, <2>5
<1>3. CASE ~Prompt(ch)
  <2> DEFINE p == Place
  <2>1. /\ pc \in Steps \ {"prompt"} /\ p \in Nat
        /\ \/ toDevice' = toDevice /\ Place' = p
           \/ \E m \in Messages : /\ toDevice' = Append(toDevice, m)
                                  /\ Pos(m) \in {p, p + 1} /\ Pos(m) \in 0 .. Blocks + 3
                                  /\ Place' = Pos(m)
    BY <1>3, SenderPlace
  <2>2. Alive(p, toDevice, device, stored)
    BY <2>1 DEF Undamaged, Active
  <2> HIDE DEF p
  <2>3. CASE toDevice' = toDevice /\ Place' = p
    BY <2>2, <2>3
  <2>4. ASSUME NEW m \in Messages, toDevice' = Append(toDevice, m),
               Pos(m) \in {p, p + 1}, Pos(m) \in 0 .. Blocks + 3, Place' = Pos(m)
        PROVE  Alive(Place', toDevice', device, stored)
    <3>1. Alive(Pos(m), Append(toDevice, m), device, stored)
      BY <1>1, <2>1, <2>2, <2>4, AliveSend
    <3> QED
      BY <2>4, <3>1
  <2> QED
    BY <2>1, <2>3, <2>4
<1> QED
  BY <1>2, <1>3

\* The order to run is not under way before the sender has given it.
NoRun(s) == \A i \in 1 .. Len(s) : s[i] # Byte("run")

LEMMA FirstAttemptSender ==
  ASSUME YmodemTypes, FirstAttempt, NEW ch, Getchar(ch),
         Prompt(ch) \/ NameAnswer(ch) \/ Go(ch) \/ DataAnswer(ch) \/ EotAnswer(ch)
           \/ EndGo(ch) \/ NullAnswer(ch),
         device' = device
  PROVE  FirstAttempt'
<1>1. toDevice \in Seq(Messages) /\ toHost \in Seq(Answers)
  BY DEF YmodemTypes
<1> DEFINE First(s) == \A i \in 1 .. Len(s) : s[i] = Byte("c") => i = 1 /\ device = "menu"
           Calm == pc \in Later \/ \E i \in 1 .. Len(toHost) : toHost[i] = "ACK"
<1>2. Loose(toDevice, device) /\ First(toDevice) /\ (Calm => Gone(toDevice, device))
  BY DEF FirstAttempt, Later
<1>3. Calm' => Calm
  <2>1. ASSUME NEW i \in 1 .. Len(toHost'), toHost'[i] = "ACK"
        PROVE  \E j \in 1 .. Len(toHost) : toHost[j] = "ACK"
    <3>1. CASE toHost' = toHost
      BY <2>1, <3>1
    <3>2. CASE toHost # <<>> /\ toHost' = Tail(toHost)
      <4>1. /\ Len(toHost') = Len(toHost) - 1 /\ Len(toHost) \in Nat \ {0}
            /\ \A k \in 1 .. Len(toHost') : toHost'[k] = toHost[k + 1]
        BY <1>1, <3>2, TailOf
      <4>2. i + 1 \in 1 .. Len(toHost) /\ toHost[i + 1] = "ACK"
        BY <2>1, <4>1
      <4> QED
        BY <4>2
    <3> QED
      BY <3>1, <3>2, Reads
  <2>2. ASSUME toHost # <<>>, Head(toHost) = "ACK"
        PROVE  \E j \in 1 .. Len(toHost) : toHost[j] = "ACK"
    <3>1. 1 \in 1 .. Len(toHost) /\ toHost[1] = "ACK"
      BY <1>1, <2>2, TailOf
    <3> QED
      BY <3>1
  <2>3. pc' \in Later => pc \in Later \/ (toHost # <<>> /\ Head(toHost) = "ACK")
    BY SenderSends
  <2> QED
    BY <2>1, <2>2, <2>3
<1>4. ASSUME NEW s \in Seq(Messages), NEW m \in Messages, m # Byte("c"), m # Byte("1"),
             Loose(s, device), First(s), Calm => Gone(s, device), m \in Pre \/ Calm
      PROVE  /\ Loose(Append(s, m), device) /\ First(Append(s, m))
             /\ Calm => Gone(Append(s, m), device)
  <2>1. /\ Len(Append(s, m)) = Len(s) + 1 /\ Len(s) \in Nat
        /\ \A i \in 1 .. Len(s) : Append(s, m)[i] = s[i]
        /\ Append(s, m)[Len(s) + 1] = m
    BY AppendProperties, LenProperties
  <2>2. Loose(Append(s, m), device)
    BY <1>4, LooseAppend
  <2> DEFINE t == Append(s, m)
  <2> HIDE DEF t
  <2>3. \A i \in 1 .. Len(t) : t[i] = Byte("c") => i \in 1 .. Len(s) /\ s[i] = Byte("c")
    BY <1>4, <2>1 DEF t
  <2>4. First(t)
    BY <1>4, <2>3
  <2>5. Calm => Gone(t, device)
    BY <1>4, <2>3 DEF Gone
  <2> QED
    BY <2>2, <2>4, <2>5 DEF t
<1>5. Loose(toDevice', device) /\ First(toDevice') /\ (Calm => Gone(toDevice', device))
  <2>1. CASE toDevice' = toDevice
    BY <1>2, <2>1
  <2>2. ASSUME NEW m \in Messages, toDevice' = Append(toDevice, m),
               m \notin {Byte("c"), Byte("1"), Byte("run")}, m = Name \/ pc \in Later
        PROVE  Loose(toDevice', device) /\ First(toDevice') /\ (Calm => Gone(toDevice', device))
    <3>1. m \in Pre \/ Calm
      BY <2>2 DEF Pre
    <3>2. m # Byte("c") /\ m # Byte("1")
      BY <2>2
    <3> HIDE DEF Calm, First
    <3>3. /\ Loose(Append(toDevice, m), device) /\ First(Append(toDevice, m))
          /\ Calm => Gone(Append(toDevice, m), device)
      BY <1>1, <1>2, <1>4, <3>1, <3>2
    <3> QED
      BY <2>2, <3>3
  <2>3. CASE toDevice' = toDevice \o <<Byte("CAN"), Byte("CAN")>>
    <3> DEFINE c == Byte("CAN")
               t == Append(toDevice, c)
    <3>1. c \in Messages /\ c \in Pre /\ c # Byte("c") /\ c # Byte("1")
      BY KeysIn, KeysApart DEF Pre
    <3> HIDE DEF c
    <3>2. t \in Seq(Messages)
      BY <1>1, <3>1, AppendProperties
    <3>3. toDevice' = Append(t, c)
      <4>1. t = toDevice \o <<c>> /\ Append(t, c) = t \o <<c>> /\ <<c>> \in Seq(Messages)
        BY <1>1, <3>1, <3>2, AppendIsConcat
      <4>2. (toDevice \o <<c>>) \o <<c>> = toDevice \o (<<c>> \o <<c>>)
        BY <1>1, <4>1, ConcatAssociative
      <4>3. <<c>> \o <<c>> = <<c, c>>
        <5>1. Append(<<c>>, c) = <<c, c>> /\ Append(<<c>>, c) = <<c>> \o <<c>>
          BY <3>1, <4>1, Short, AppendIsConcat
        <5> QED
          BY <5>1
      <4> QED
        BY <2>3, <4>1, <4>2, <4>3 DEF c
    <3> HIDE DEF Calm, First
    <3>4. Loose(t, device) /\ First(t) /\ (Calm => Gone(t, device))
      BY <1>1, <1>2, <1>4, <3>1
    <3> HIDE DEF t
    <3>5. Loose(Append(t, c), device) /\ First(Append(t, c)) /\ (Calm => Gone(Append(t, c), device))
      BY <1>4, <3>1, <3>2, <3>4
    <3> QED
      BY <3>3, <3>5
  <2> QED
    BY <2>1, <2>2, <2>3, SenderSends
<1>6. Calm' => Gone(toDevice', device)
  BY <1>3, <1>5
<1> QED
  BY <1>5, <1>6 DEF FirstAttempt, Later

LEMMA UndamagedSender ==
  ASSUME YmodemTypes, Undamaged, Sender
  PROVE  Undamaged'
<1>1. PICK ch \in Answers \cup {TimedOut} :
        /\ Getchar(ch)
        /\ Prompt(ch) \/ NameAnswer(ch) \/ Go(ch) \/ DataAnswer(ch) \/ EotAnswer(ch)
             \/ EndGo(ch) \/ NullAnswer(ch)
  BY DEF Sender
<1>2. attempt' = attempt /\ success' = success /\ device' = device /\ stored' = stored
  BY DEF Sender, bootloader
<1>3. /\ pc' = "prompt" => pc = "prompt" /\ toHost = <<>> /\ toHost' = <<>> /\ toDevice' = toDevice
      /\ pc \in Steps /\ pc' \in Steps \cup {"sent", "failed"}
  BY <1>1, SenderSends
<1>4. toDevice \in Seq(Messages)
  BY DEF YmodemTypes
<1>5. device # "running" /\ NoRun(toDevice')
  <2>1. device # "running" /\ NoRun(toDevice)
    BY <1>3 DEF Undamaged, NoRun, Steps
  <2>2. CASE toDevice' = toDevice
    BY <2>1, <2>2
  <2>3. ASSUME NEW m \in Messages, toDevice' = Append(toDevice, m), m # Byte("run")
        PROVE  NoRun(toDevice')
    <3>1. Only(toDevice, Messages \ {Byte("run")})
      BY <1>4, <2>1, ElementOfSeq DEF Only, NoRun
    <3>2. Only(Append(toDevice, m), Messages \ {Byte("run")})
      BY <1>4, <2>3, <3>1, OnlyAppend
    <3> QED
      BY <2>3, <3>2 DEF NoRun, Only
  <2>4. CASE toDevice' = toDevice \o <<Byte("CAN"), Byte("CAN")>>
    <3>1. Only(toDevice, Messages \ {Byte("run")})
      BY <1>4, <2>1, ElementOfSeq DEF Only, NoRun
    <3>2. Byte("CAN") \in Messages /\ Byte("CAN") \in Messages \ {Byte("run")}
      BY KeysIn, KeysApart
    <3>3. Only(toDevice \o <<Byte("CAN"), Byte("CAN")>>, Messages \ {Byte("run")})
      BY <1>4, <3>1, <3>2, OnlyPair
    <3> DEFINE t == toDevice \o <<Byte("CAN"), Byte("CAN")>>
    <3>4. Only(t, Messages \ {Byte("run")}) /\ toDevice' = t
      BY <2>4, <3>3
    <3> HIDE DEF t
    <3>5. Only(toDevice', Messages \ {Byte("run")})
      BY <3>4
    <3> QED
      BY <2>1, <3>5 DEF NoRun, Only
  <2> QED
    BY <1>1, <2>1, <2>2, <2>3, <2>4, SenderSends
<1>6. attempt' = 1 => FirstAttempt'
  BY <1>1, <1>2, FirstAttemptSender DEF Undamaged
<1>7. Active' => Alive(Place', toDevice', device', stored')
  <2>1. Active' => pc' \in (Steps \ {"prompt"}) \cup {"sent"}
    BY <1>3 DEF Active, Steps
  <2> QED
    BY <1>1, <1>2, <2>1, SenderAlive
<1>8. pc' # "idle"
  BY <1>3 DEF Steps
<1>9. pc' = "prompt" =>
        /\ Loose(toDevice', device') /\ KeysLast(toDevice')
        /\ toHost' # <<>> /\ Head(toHost') = "CRC" => Ready(toDevice', device', stored')
  BY <1>2, <1>3 DEF Undamaged
<1> QED
  BY <1>2, <1>5, <1>6, <1>7, <1>8, <1>9 DEF Undamaged, NoRun

LEMMA UndamagedStart ==
  ASSUME YmodemTypes, Undamaged, Start
  PROVE  Undamaged'
<1>1. /\ pc = "idle" /\ attempt' = attempt + 1 /\ pc' = "prompt"
      /\ toDevice' = toDevice \o <<Byte("c"), Byte("1")>> /\ toHost' = <<>>
      /\ device' = device /\ stored' = stored /\ toDevice \in Seq(Messages)
  BY DEF Start, YmodemTypes
<1>2. /\ Loose(toDevice, device) /\ device # "running"
      /\ Only(toDevice, Messages \ {Byte("run")})
  BY <1>1, ElementOfSeq DEF Undamaged, Only
<1>3. /\ Loose(toDevice', device') /\ KeysLast(toDevice')
      /\ Only(toDevice', Messages \ {Byte("run")})
  BY <1>1, <1>2, LooseStart
<1>4. \A i \in 1 .. Len(toDevice') : toDevice'[i] # Byte("run")
  BY <1>3 DEF Only
<1>5. attempt' = 1 => FirstAttempt'
  <2> SUFFICES ASSUME attempt' = 1 PROVE FirstAttempt'
    OBVIOUS
  <2>1. attempt = 0
    BY <1>1 DEF YmodemTypes
  <2>2. device = "menu" /\ toDevice = <<>>
    BY <1>1, <2>1 DEF Undamaged
  <2>3. toDevice' = <<Byte("c"), Byte("1")>>
    BY <1>1, <2>2, KeysIn, Short
  <2>4. \A i \in 1 .. Len(toDevice') : toDevice'[i] = Byte("c") => i = 1 /\ device' = "menu"
    <3>1. Byte("1") # Byte("c")
      BY KeysApart
    <3>2. Len(<<Byte("c"), Byte("1")>>) = 2 /\ <<Byte("c"), Byte("1")>>[2] = Byte("1")
      OBVIOUS
    <3> QED
      BY <1>1, <2>2, <2>3, <3>1, <3>2
  <2>5. \A i \in 1 .. Len(toHost') : toHost'[i] # "ACK"
    <3>1. Len(<<>>) = 0
      OBVIOUS
    <3> QED
      BY <1>1, <3>1
  <2> QED
    BY <1>1, <1>3, <2>4, <2>5 DEF FirstAttempt
<1>6. ~Active' /\ device' # "running" /\ pc' # "idle"
  BY <1>1, <1>2 DEF Active
<1> QED
  BY <1>1, <1>3, <1>4, <1>5, <1>6 DEF Undamaged

LEMMA UndamagedReturn ==
  ASSUME YmodemTypes, Undamaged, Return
  PROVE  Undamaged'
<1>1. /\ blockno' = blockno /\ attempt' = attempt /\ toHost' = toHost
      /\ device' = device /\ stored' = stored /\ toDevice \in Seq(Messages)
  BY DEF Return, bootloader, YmodemTypes
<1>2. CASE pc = "sent" /\ success' = TRUE /\ Send(Byte("run")) /\ pc' = "done"
  <2>1. toDevice' = Append(toDevice, Byte("run"))
    BY <1>2 DEF Send
  <2>2. Place = Blocks + 2 /\ Place' = Blocks + 3 /\ Alive(Place, toDevice, device, stored)
    BY <1>2 DEF Place, Undamaged, Active
  <2>3. Alive(Place', toDevice', device', stored')
    <3>1. Blocks + 2 \in Nat /\ Pos(Byte("run")) = Blocks + 3 /\ Byte("run") \in Messages
          /\ (Blocks + 2) + 1 = Blocks + 3 /\ Blocks + 3 \in 0 .. Blocks + 3
      BY Numbers, Places, KeysIn
    <3>2. Alive(Blocks + 3, Append(toDevice, Byte("run")), device, stored)
      BY <1>1, <2>2, <3>1, AliveSend
    <3> QED
      BY <1>1, <2>1, <2>2, <3>2
  <2>4. attempt' = 1 => FirstAttempt'
    <3> SUFFICES ASSUME attempt' = 1 PROVE FirstAttempt'
      OBVIOUS
    <3>1. FirstAttempt /\ Gone(toDevice, device)
      BY <1>1, <1>2 DEF Undamaged, FirstAttempt
    <3>2. Byte("run") \in Messages /\ Byte("run") # Byte("c") /\ Byte("run") # Byte("1")
      BY KeysIn, KeysApart
    <3>3. Loose(toDevice', device')
      BY <1>1, <2>1, <3>1, <3>2, LooseAppend DEF FirstAttempt
    <3>4. \A i \in 1 .. Len(toDevice') : toDevice'[i] # Byte("c")
      <4>1. /\ Len(toDevice') = Len(toDevice) + 1 /\ Len(toDevice) \in Nat
            /\ \A i \in 1 .. Len(toDevice) : toDevice'[i] = toDevice[i]
            /\ toDevice'[Len(toDevice) + 1] = Byte("run")
        BY <1>1, <2>1, <3>2, AppendProperties, LenProperties
      <4> QED
        BY <3>1, <3>2, <4>1 DEF Gone
    <3>5. Gone(toDevice', device')
      BY <1>1, <3>1, <3>4 DEF Gone
    <3> QED
      BY <3>3, <3>4, <3>5 DEF FirstAttempt
  <2>5. pc' = "done" /\ success'
    BY <1>2
  <2> QED
    BY <2>3, <2>4, <2>5 DEF Undamaged
<1>3. CASE /\ pc = "failed" /\ success' = FALSE /\ toDevice' = toDevice
           /\ pc' = IF attempt < 2 THEN "idle" ELSE "done"
  <2>1. device # "running" /\ \A i \in 1 .. Len(toDevice) : toDevice[i] # Byte("run")
    BY <1>3 DEF Undamaged
  <2>2. attempt' = 1 => FirstAttempt'
    <3> SUFFICES ASSUME attempt' = 1 PROVE FirstAttempt'
      OBVIOUS
    <3>1. FirstAttempt
      BY <1>1 DEF Undamaged
    <3>2. pc' \notin {"go", "data", "eot", "endgo", "null", "sent"}
      BY <1>3
    <3> QED
      BY <1>1, <1>3, <3>1, <3>2 DEF FirstAttempt
  <2>3. pc' = "idle" => Loose(toDevice', device') /\ attempt' # 0
    <3>1. pc' = "idle" => attempt = 1
      BY <1>3 DEF YmodemTypes
    <3> QED
      BY <1>1, <1>3, <3>1 DEF Undamaged, FirstAttempt
  <2>4. ~Active' /\ pc' # "prompt"
    BY <1>3 DEF Active, Steps
  <2> QED
    BY <1>1, <1>3, <2>1, <2>2, <2>3, <2>4 DEF Undamaged
<1> QED
  BY <1>2, <1>3 DEF Return

LEMMA UndamagedDevice ==
  ASSUME YmodemTypes, Undamaged, Device
  PROVE  Undamaged'
<1> DEFINE m == Head(toDevice)
<1>1. /\ toDevice # <<>> /\ toDevice' = Tail(toDevice) /\ toDevice \in Seq(Messages)
      /\ Len(toDevice') = Len(toDevice) - 1 /\ Len(toDevice) \in Nat \ {0}
      /\ \A i \in 1 .. Len(toDevice') : i + 1 \in 1 .. Len(toDevice) /\ toDevice'[i] = toDevice[i + 1]
      /\ m = toDevice[1] /\ 1 \in 1 .. Len(toDevice)
      /\ pc' = pc /\ blockno' = blockno /\ attempt' = attempt /\ success' = success
  <2>1. /\ toDevice # <<>> /\ toDevice' = Tail(toDevice) /\ toDevice \in Seq(Messages)
        /\ Len(toDevice') = Len(toDevice) - 1 /\ Len(toDevice) \in Nat \ {0}
        /\ \A i \in 1 .. Len(toDevice') : toDevice'[i] = toDevice[i + 1]
        /\ m = toDevice[1]
    BY DeviceFrame, TailOf DEF YmodemTypes
  <2>2. \A i \in 1 .. Len(toDevice') : i + 1 \in 1 .. Len(toDevice)
    BY <2>1
  <2> QED
    BY <2>1, <2>2, DeviceFrame
<1>2. /\ device' = "pressed" => m = Byte("c")
      /\ device' = "name" => device \in {"pressed", "name"}
      /\ device' = "running" => device = "running" \/ m = Byte("run")
  BY DeviceMoves
<1>3. PICK s \in {<<>>, <<"ACK">>, <<"NAK">>, <<"CAN">>, <<"ACK", "CRC">>} :
               /\ toHost' = toHost \o s
               /\ s \in {<<"ACK">>, <<"ACK", "CRC">>} => device' \in {"data", "null", "menu"}
  BY DeviceMoves
<1>4. s \in Seq(Answers) /\ toHost \in Seq(Answers)
  <2>1. "ACK" \in Answers /\ "NAK" \in Answers /\ "CAN" \in Answers /\ "CRC" \in Answers
    BY DEF Answers
  <2>2. \A a, b \in Answers : <<>> \in Seq(Answers) /\ <<a>> \in Seq(Answers) /\ <<a, b>> \in Seq(Answers)
    OBVIOUS
  <2> QED
    BY <2>1, <2>2 DEF YmodemTypes
<1> HIDE DEF m
<1>5. ~(pc' = "done" /\ success') =>
        device' # "running" /\ \A i \in 1 .. Len(toDevice') : toDevice'[i] # Byte("run")
  BY <1>1, <1>2 DEF Undamaged
<1>6. pc' = "idle" => /\ Loose(toDevice', device')
                      /\ attempt' # 0
  <2> SUFFICES ASSUME pc = "idle" PROVE Loose(toDevice', device') /\ attempt # 0
    BY <1>1
  <2>1. Loose(toDevice, device) /\ attempt # 0
    BY <1>1 DEF Undamaged
  <2> QED
    BY <2>1, LooseTail
<1>7. attempt' = 1 => FirstAttempt'
  <2> SUFFICES ASSUME attempt = 1 PROVE FirstAttempt'
    BY <1>1
  <2>1. FirstAttempt
    BY DEF Undamaged
  <2>2. Loose(toDevice', device')
    BY <2>1, LooseTail DEF FirstAttempt
  <2>3. \A i \in 1 .. Len(toDevice') : toDevice'[i] # Byte("c")
    <3> SUFFICES ASSUME NEW i \in 1 .. Len(toDevice'), toDevice'[i] = Byte("c") PROVE FALSE
      OBVIOUS
    <3>1. i + 1 \in 1 .. Len(toDevice) /\ toDevice[i + 1] = Byte("c")
      BY <1>1
    <3>2. i + 1 = 1
      BY <2>1, <3>1 DEF FirstAttempt
    <3> QED
      BY <3>2
  <2>4. ASSUME Gone(toDevice, device) PROVE Gone(toDevice', device')
    <3>1. m # Byte("c") /\ device \notin {"pressed", "name"}
      BY <1>1, <2>4 DEF Gone
    <3> QED
      BY <1>2, <2>3, <3>1 DEF Gone
  <2>5. ASSUME NEW i \in 1 .. Len(toHost'), toHost'[i] = "ACK" PROVE Gone(toDevice', device')
    <3>1. /\ Len(toHost') = Len(toHost) + Len(s) /\ Len(toHost) \in Nat /\ Len(s) \in Nat
          /\ \A j \in 1 .. Len(toHost) + Len(s) :
                toHost'[j] = IF j <= Len(toHost) THEN toHost[j] ELSE s[j - Len(toHost)]
      BY <1>3, <1>4, ConcatProperties, LenProperties
    <3>2. CASE i <= Len(toHost)
      <4>1. i \in 1 .. Len(toHost) /\ toHost[i] = "ACK"
        BY <2>5, <3>1, <3>2
      <4>2. Gone(toDevice, device)
        BY <2>1, <4>1 DEF FirstAttempt
      <4> QED
        BY <2>4, <4>2
    <3>3. CASE ~(i <= Len(toHost))
      <4>1. i - Len(toHost) \in 1 .. Len(s) /\ s[i - Len(toHost)] = "ACK"
        BY <2>5, <3>1, <3>3
      <4>2. PICK k \in 1 .. Len(s) : s[k] = "ACK"
        BY <4>1
      <4>3. s \notin {<<>>, <<"NAK">>, <<"CAN">>}
        <5>1. Len(<<>>) = 0 /\ Len(<<"NAK">>) = 1 /\ Len(<<"CAN">>) = 1
              /\ <<"NAK">>[1] = "NAK" /\ <<"CAN">>[1] = "CAN"
          OBVIOUS
        <5>2. s # <<>>
          BY <4>2, <5>1
        <5>3. s # <<"NAK">>
          BY <4>2, <5>1
        <5>4. s # <<"CAN">>
          BY <4>2, <5>1
        <5> QED
          BY <5>2, <5>3, <5>4
      <4>4. device' \in {"data", "null", "menu"}
        BY <1>3, <4>3
      <4> QED
        BY <2>3, <4>4 DEF Gone
    <3> QED
      BY <3>2, <3>3
  <2>6. pc' \in {"go", "data", "eot", "endgo", "null", "sent"} => Gone(toDevice', device')
    BY <1>1, <2>1, <2>4 DEF FirstAttempt
  <2> QED
    BY <2>2, <2>3, <2>5, <2>6 DEF FirstAttempt
<1>8. pc' = "prompt" =>
        /\ Loose(toDevice', device') /\ KeysLast(toDevice')
        /\ toHost' # <<>> /\ Head(toHost') = "CRC" => Ready(toDevice', device', stored')
  <2> SUFFICES ASSUME pc = "prompt"
               PROVE  /\ Loose(toDevice', device') /\ KeysLast(toDevice')
                      /\ toHost' # <<>> /\ Head(toHost') = "CRC" => Ready(toDevice', device', stored')
    BY <1>1
  <2>1. /\ Loose(toDevice, device) /\ KeysLast(toDevice)
        /\ toHost # <<>> /\ Head(toHost) = "CRC" => Ready(toDevice, device, stored)
    BY DEF Undamaged
  <2>2. Loose(toDevice', device')
    BY <2>1, LooseTail
  <2>3. KeysLast(toDevice')
    BY <1>1, <2>1, KeysLastTail
  <2>4. ASSUME toHost' # <<>>, Head(toHost') = "CRC" PROVE Ready(toDevice', device', stored')
    <3>1. CASE toHost = <<>>
      <4>1. toHost' = s
        BY <1>3, <1>4, <3>1, HeadOfMore
      <4>2. s # <<>> /\ Head(s) = "CRC"
        BY <2>4, <4>1
      <4>3. Head(<<"ACK">>) = "ACK" /\ Head(<<"NAK">>) = "NAK" /\ Head(<<"CAN">>) = "CAN"
            /\ Head(<<"ACK", "CRC">>) = "ACK"
        BY Short
      <4> QED
        BY <1>3, <4>2, <4>3
    <3>2. CASE toHost # <<>>
      <4>1. Head(toHost) = "CRC"
        BY <1>3, <1>4, <2>4, <3>2, HeadOfMore
      <4>2. Ready(toDevice, device, stored)
        BY <2>1, <3>2, <4>1
      <4> QED
        BY <1>1, <4>2, ReadyTail
    <3> QED
      BY <3>1, <3>2
  <2> QED
    BY <2>2, <2>3, <2>4
<1>9. Active' => Alive(Place', toDevice', device', stored')
  <2>1. Place' = Place /\ (Active' <=> Active) /\ (Active => Place \in Nat)
    BY <1>1, Numbers DEF Place, Active, YmodemTypes
  <2> SUFFICES ASSUME Active PROVE Alive(Place, toDevice', device', stored')
    BY <2>1
  <2>2. Alive(Place, toDevice, device, stored)
    BY DEF Undamaged
  <2> DEFINE p == Place
  <2>3. p \in Nat /\ Alive(p, toDevice, device, stored)
    BY <2>1, <2>2
  <2> HIDE DEF p
  <2>4. Alive(p, toDevice', device', stored')
    BY <2>3, AliveDevice
  <2> QED
    BY <2>4 DEF p
<1> QED
  BY <1>5, <1>6, <1>7, <1>8, <1>9 DEF Undamaged

LEMMA UndamagedDevicePrompt ==
  ASSUME YmodemTypes, Undamaged, DevicePrompt
  PROVE  Undamaged'
<1>1. /\ device = "name" /\ toHost' = Append(toHost, "CRC") /\ toHost \in Seq(Answers)
      /\ pc' = pc /\ blockno' = blockno /\ attempt' = attempt /\ success' = success
      /\ toDevice' = toDevice /\ device' = device /\ stored' = stored
  BY DEF DevicePrompt, sender, YmodemTypes
<1>2. attempt' = 1 => FirstAttempt'
  <2> SUFFICES ASSUME attempt = 1 PROVE FirstAttempt'
    BY <1>1
  <2>1. FirstAttempt
    BY DEF Undamaged
  <2>2. ASSUME NEW i \in 1 .. Len(toHost'), toHost'[i] = "ACK"
        PROVE  i \in 1 .. Len(toHost) /\ toHost[i] = "ACK"
    <3>1. /\ Len(toHost') = Len(toHost) + 1 /\ Len(toHost) \in Nat
          /\ \A j \in 1 .. Len(toHost) : toHost'[j] = toHost[j]
          /\ toHost'[Len(toHost) + 1] = "CRC"
      <4>1. "CRC" \in Answers
        BY DEF Answers
      <4> QED
        BY <1>1, <4>1, AppendProperties, LenProperties
    <3> QED
      BY <2>2, <3>1
  <2> QED
    BY <1>1, <2>1, <2>2 DEF FirstAttempt, Gone
<1>3. pc' = "prompt" =>
        /\ Loose(toDevice', device') /\ KeysLast(toDevice')
        /\ toHost' # <<>> /\ Head(toHost') = "CRC" => Ready(toDevice', device', stored')
  <2>1. pc = "prompt" => Loose(toDevice, device) /\ KeysLast(toDevice)
    BY DEF Undamaged
  <2>2. Loose(toDevice, device) /\ KeysLast(toDevice) => Ready(toDevice, device, stored)
    BY <1>1 DEF Loose, Ready
  <2> QED
    BY <1>1, <2>1, <2>2
<1>4. Place' = Place /\ (Active' <=> Active)
  BY <1>1 DEF Place, Active
<1>5. Active' => Alive(Place', toDevice', device', stored')
  BY <1>1, <1>4 DEF Undamaged
<1> QED
  BY <1>1, <1>2, <1>3, <1>5 DEF Undamaged

\* Nothing is under way to a device that gives up.
LEMMA UndamagedGiveUp ==
  ASSUME YmodemTypes, Undamaged, GiveUp
  PROVE  Undamaged'
<1>1. /\ device \in {"name", "data", "null", "pressed"} /\ toDevice = <<>>
      /\ pc \in {"idle", "prompt", "done"} /\ (pc = "prompt" => toHost = <<>>)
      /\ device' = "menu"
      /\ pc' = pc /\ blockno' = blockno /\ attempt' = attempt /\ success' = success
      /\ toDevice' = toDevice /\ toHost' = toHost /\ stored' = stored
  BY DEF GiveUp, sender
<1>2. Len(<<>>) = 0
  OBVIOUS
<1>3. Loose(toDevice', device') /\ Gone(toDevice', device') /\ KeysLast(toDevice')
  BY <1>1, <1>2 DEF Loose, Keyed, Pairs, Only, Gone, KeysLast
<1>4. ~(pc = "done" /\ success)
  <2> SUFFICES ASSUME pc = "done", success PROVE FALSE
    OBVIOUS
  <2>1. Alive(Blocks + 3, toDevice, device, stored)
    BY DEF Undamaged, Active, Place
  <2>2. ASSUME NEW d \in 0 .. Blocks + 3, Reached(d, device, stored),
               Chain(toDevice, d, Blocks + 3)
        PROVE  FALSE
    <3>1. d = Blocks + 3
      BY <1>1, <2>2 DEF Chain
    <3> QED
      BY <1>1, <2>2, <3>1, Numbers DEF Reached
  <2>3. ASSUME NEW u \in Seq(Messages), NEW v \in Seq(Messages), toDevice = u \o v, v # <<>>
        PROVE  FALSE
    <3>1. u \o v = <<>>
      BY <1>1, <2>3
    <3>2. v = <<>>
      BY <3>1, ConcatEqualIffEmpty
    <3> QED
      BY <2>3, <3>2
  <2> QED
    BY <2>1, <2>2, <2>3 DEF Alive
<1>5. ~Active'
  BY <1>1, <1>4 DEF Active, Steps
<1>6. attempt' = 1 => FirstAttempt'
  BY <1>1, <1>2, <1>3 DEF FirstAttempt
<1>7. pc' = "idle" => attempt' # 0
  BY <1>1 DEF Undamaged
<1> QED
  BY <1>1, <1>2, <1>3, <1>5, <1>6, <1>7 DEF Undamaged

\* What the line does to the answers adds neither an ACK nor a first C.
LEMMA NothingHeard ==
  ASSUME YmodemTypes,
         \/ toHost # <<>> /\ toHost' = Front(toHost)
         \/ toHost # <<>> /\ toHost' = Append(Front(toHost), "noise")
         \/ toHost' = Append(toHost, "noise")
  PROVE  /\ \A i \in 1 .. Len(toHost') :
               toHost'[i] = "ACK" => i \in 1 .. Len(toHost) /\ toHost[i] = "ACK"
         /\ toHost' # <<>> /\ Head(toHost') = "CRC" => toHost # <<>> /\ Head(toHost) = "CRC"
<1>1. toHost \in Seq(Answers)
  BY DEF YmodemTypes
<1>2. "noise" \in Answers /\ "noise" # "ACK" /\ "noise" # "CRC"
  BY DEF Answers
<1>3. ASSUME NEW i \in 1 .. Len(toHost'), toHost'[i] = "ACK"
      PROVE  i \in 1 .. Len(toHost) /\ toHost[i] = "ACK"
  <2>1. CASE toHost' = Append(toHost, "noise")
    <3>1. /\ Len(toHost') = Len(toHost) + 1 /\ Len(toHost) \in Nat
          /\ \A j \in 1 .. Len(toHost) : toHost'[j] = toHost[j]
          /\ toHost'[Len(toHost) + 1] = "noise"
      BY <1>1, <1>2, <2>1, AppendProperties, LenProperties
    <3> QED
      BY <1>2, <1>3, <3>1
  <2>2. CASE toHost # <<>> /\ toHost' = Front(toHost)
    <3>1. /\ Len(toHost') = Len(toHost) - 1 /\ Len(toHost) \in Nat \ {0}
          /\ \A j \in 1 .. Len(toHost) - 1 : toHost'[j] = toHost[j]
      BY <1>1, <2>2, FrontOf
    <3> QED
      BY <1>3, <3>1
  <2>3. CASE toHost # <<>> /\ toHost' = Append(Front(toHost), "noise")
    <3> DEFINE f == Front(toHost)
    <3>1. /\ f \in Seq(Answers) /\ Len(f) = Len(toHost) - 1 /\ Len(toHost) \in Nat \ {0}
          /\ \A j \in 1 .. Len(toHost) - 1 : f[j] = toHost[j]
      BY <1>1, <2>3, FrontOf
    <3> HIDE DEF f
    <3>2. /\ Len(toHost') = Len(f) + 1
          /\ \A j \in 1 .. Len(f) : toHost'[j] = f[j]
          /\ toHost'[Len(f) + 1] = "noise"
      BY <1>2, <2>3, <3>1, AppendProperties DEF f
    <3> QED
      BY <1>2, <1>3, <3>1, <3>2
  <2> QED
    BY <1>1, <2>1, <2>2, <2>3
<1>4. toHost' # <<>> /\ Head(toHost') = "CRC" => toHost # <<>> /\ Head(toHost) = "CRC"
  <2> SUFFICES ASSUME toHost' # <<>>, Head(toHost') = "CRC"
               PROVE  toHost # <<>> /\ Head(toHost) = "CRC"
    OBVIOUS
  <2>1. CASE toHost' = Append(toHost, "noise")
    <3>1. Head(toHost') = IF toHost = <<>> THEN "noise" ELSE Head(toHost)
      BY <1>1, <2>1, HeadTailAppend
    <3> QED
      BY <1>2, <3>1
  <2>2. CASE toHost # <<>> /\ (toHost' = Front(toHost) \/ toHost' = Append(Front(toHost), "noise"))
    <3>1. /\ Len(toHost) = 1 => toHost' \in {<<>>, <<"noise">>}
          /\ Len(toHost) # 1 => Head(toHost') = Head(toHost)
      BY <2>2, LessHeard
    <3>2. Head(<<"noise">>) = "noise"
      BY Short
    <3> QED
      BY <1>2, <2>2, <3>1, <3>2
  <2> QED
    BY <1>1, <2>1, <2>2
<1> QED
  BY <1>3, <1>4

LEMMA UndamagedFault ==
  ASSUME YmodemTypes, Undamaged, Fault, damaged = 0, damaged' = 0
  PROVE  Undamaged'
<1>1. /\ pc' = pc /\ blockno' = blockno /\ attempt' = attempt /\ success' = success
      /\ toDevice' = toDevice /\ device' = device /\ stored' = stored
      /\ toHost \in Seq(Answers)
      /\ \/ toHost # <<>> /\ toHost' = Front(toHost)
         \/ toHost # <<>> /\ toHost' = Append(Front(toHost), "noise")
         \/ toHost' = Append(toHost, "noise")
  BY FaultFrame DEF YmodemTypes
<1>2. \A i \in 1 .. Len(toHost') : toHost'[i] = "ACK" => i \in 1 .. Len(toHost) /\ toHost[i] = "ACK"
  BY <1>1, NothingHeard
<1>3. toHost' # <<>> /\ Head(toHost') = "CRC" => toHost # <<>> /\ Head(toHost) = "CRC"
  BY <1>1, NothingHeard
<1>5. attempt' = 1 => FirstAttempt'
  BY <1>1, <1>2 DEF Undamaged, FirstAttempt, Gone
<1>6. pc' = "prompt" =>
        /\ Loose(toDevice', device') /\ KeysLast(toDevice')
        /\ toHost' # <<>> /\ Head(toHost') = "CRC" => Ready(toDevice', device', stored')
  BY <1>1, <1>3 DEF Undamaged
<1>7. Place' = Place /\ (Active' <=> Active)
  BY <1>1 DEF Place, Active
<1>8. Active' => Alive(Place', toDevice', device', stored')
  BY <1>1, <1>7 DEF Undamaged
<1> QED
  BY <1>1, <1>5, <1>6, <1>8 DEF Undamaged

LEMMA UndamagedStep == YmodemTypes /\ UndamagedInv /\ [Next]_vars => UndamagedInv'
<1> SUFFICES ASSUME YmodemTypes, UndamagedInv, [Next]_vars, damaged' = 0 PROVE Undamaged'
  BY DEF UndamagedInv
<1>1. damaged = 0 /\ Undamaged
  <2>1. damaged \in Nat
    BY DEF YmodemTypes
  <2>2. damaged' = damaged \/ damaged' = damaged + 1
    <3>1. CASE Sender
      BY <3>1, Reads DEF Sender
    <3>2. CASE Start \/ Return \/ Device \/ DevicePrompt \/ GiveUp \/ Done \/ UNCHANGED vars
      BY <3>2 DEF Start, Return, Device, DevicePrompt, GiveUp, Done, vars, line
    <3>3. CASE Fault
      BY <3>3, FaultFrame
    <3> QED
      BY <3>1, <3>2, <3>3 DEF Next
  <2>3. damaged = 0
    BY <2>1, <2>2
  <2> QED
    BY <2>3 DEF UndamagedInv
<1>2. CASE UNCHANGED vars
  <2>1. /\ pc' = pc /\ blockno' = blockno /\ attempt' = attempt /\ success' = success
        /\ toDevice' = toDevice /\ device' = device /\ stored' = stored /\ toHost' = toHost
    BY <1>2 DEF vars, sender, bootloader
  <2> QED
    BY <1>1, <2>1 DEF Undamaged, FirstAttempt, Gone, Active, Place
<1>3. CASE Done
  BY <1>2, <1>3 DEF Done
<1> QED
  BY <1>1, <1>2, <1>3, UndamagedSender, UndamagedStart, UndamagedReturn, UndamagedDevice,
     UndamagedDevicePrompt, UndamagedGiveUp, UndamagedFault DEF Next

LEMMA InitUndamaged == Init => UndamagedInv
<1> SUFFICES ASSUME Init PROVE Undamaged
  BY DEF UndamagedInv
<1>1. Len(<<>>) = 0
  OBVIOUS
<1>2. Loose(<<>>, "menu")
  BY <1>1 DEF Loose, Keyed, Pairs, Only
<1> QED
  BY <1>1, <1>2 DEF Init, Undamaged, Active, Steps

\* Whatever the sender reads, the device gets the packets in the sender's order
\* as long as none of them is lost or damaged.
THEOREM UploadWithoutGap == Spec => []UndamagedInv
<1>1. Init => UndamagedInv
  BY InitUndamaged
<1>2. YmodemTypes /\ UndamagedInv /\ [Next]_vars => UndamagedInv'
  BY UndamagedStep
<1> QED
  BY <1>1, <1>2, UploadTyped, PTL DEF Spec

-----------------------------------------------------------------------------
\* The device is told to run a firmware only when it has all of it: for a file
\* of any length, if the sender reads no stray answer, and also if it reads any
\* number of them but no packet is lost or damaged.
THEOREM UploadRunsWhole == Spec => []RunsWhole
<1>1. YmodemTypes /\ LockInv /\ UndamagedInv => RunsWhole
  <2> SUFFICES ASSUME YmodemTypes, LockInv, UndamagedInv, device = "running",
                      extra = 0 \/ damaged = 0
               PROVE  Whole
    BY DEF RunsWhole, YmodemTypes
  <2>1. Len(stored) = Blocks /\ \A n \in 1 .. Len(stored) : stored[n] = n
    <3>1. CASE extra = 0
      <4>1. Lockstep
        BY <3>1 DEF LockInv
      <4>2. pc = "done" /\ success
        BY <4>1 DEF Lockstep, AtIdle, AtPrompt, AtName, AtGo, AtData, AtEot, AtEndgo, AtNull,
                    AtSent, AtFailed, AtDone, Over, YmodemTypes, Steps
      <4> QED
        BY <4>1, <4>2 DEF Lockstep, AtDone, Finished, Sequential
    <3>2. CASE damaged = 0
      <4>1. pc = "done" /\ success
        BY <3>2 DEF UndamagedInv, Undamaged
      <4>2. Alive(Place, toDevice, device, stored)
        BY <3>2, <4>1 DEF UndamagedInv, Undamaged, Active
      <4>3. \A u : ~Ready(u, device, stored)
        BY DEF Ready
      <4>4. PICK d \in 0 .. Blocks + 3 : Reached(d, device, stored)
        BY <4>2, <4>3 DEF Alive
      <4>5. d > Blocks
        BY <4>4, Numbers DEF Reached
      <4> QED
        BY <4>4, <4>5, Numbers DEF Reached
    <3> QED
      BY <3>1, <3>2
  <2>2. stored \in Seq(0 .. Blocks) /\ Blocks \in Nat
    BY Numbers DEF YmodemTypes
  <2> DEFINE w == [n \in 1 .. Blocks |-> n]
  <2>3. w \in Seq(0 .. Blocks) /\ Len(w) = Blocks /\ \A n \in 1 .. Blocks : w[n] = n
    BY <2>2
  <2> HIDE DEF w
  <2>4. stored = w
    BY <2>1, <2>2, <2>3, SeqEqual
  <2> QED
    BY <2>4 DEF Whole, w
<1> QED
  BY <1>1, UploadTyped, UploadInLockstep, UploadWithoutGap, PTL

-----------------------------------------------------------------------------
(***************************************************************************)
(* Packets are lost or damaged and the sender reads what it likes.  First  *)
(* what holds of an attempt's keys, whatever goes wrong: a file that is    *)
(* begun finds nothing of an earlier one in front of it.                   *)
(***************************************************************************)
Behind(s, dev) ==
  /\ \A i, j \in 1 .. Len(s) : i <= j /\ s[i] = Byte("c") => s[j] \in Openers
  /\ dev \in {"pressed", "name"} => Only(s, Openers)

\* In the first attempt nothing of an earlier one is left: the c is the first
\* message, and gone when the device acknowledges something.
FirstC(s, dev) == \A i \in 1 .. Len(s) : s[i] = Byte("c") => i = 1 /\ dev = "menu"
Heeded == pc \in Later \/ \E i \in 1 .. Len(toHost) : toHost[i] = "ACK"
FirstBehind ==
  /\ Behind(toDevice, device) /\ FirstC(toDevice, device)
  /\ Heeded => Gone(toDevice, device)

BehindInv ==
  /\ pc \in {"idle", "prompt"} => Behind(toDevice, device)
  /\ attempt = 0 => device = "menu" /\ toDevice = <<>>
  /\ attempt = 1 => FirstBehind
  /\ pc = "prompt" /\ toHost # <<>> /\ Head(toHost) = "CRC" =>
        Only(toDevice, Openers) /\ (device = "data" => stored = <<>>)

LEMMA BehindTail ==
  ASSUME YmodemTypes, Device, Behind(toDevice, device)
  PROVE  Behind(toDevice', device')
<1>1. /\ toDevice # <<>> /\ toDevice' = Tail(toDevice) /\ toDevice \in Seq(Messages)
      /\ Len(toDevice') = Len(toDevice) - 1 /\ Len(toDevice) \in Nat \ {0}
      /\ \A i \in 1 .. Len(toDevice') : toDevice'[i] = toDevice[i + 1]
      /\ Head(toDevice) = toDevice[1]
  BY DeviceFrame, TailOf DEF YmodemTypes
<1>2. ASSUME NEW i \in 1 .. Len(toDevice'), NEW j \in 1 .. Len(toDevice'),
             i <= j, toDevice'[i] = Byte("c")
      PROVE  toDevice'[j] \in Openers
  <2>1. i + 1 \in 1 .. Len(toDevice) /\ j + 1 \in 1 .. Len(toDevice) /\ i + 1 <= j + 1
    BY <1>1, <1>2
  <2> QED
    BY <1>1, <1>2, <2>1 DEF Behind
<1>3. ASSUME device' \in {"pressed", "name"} PROVE Only(toDevice', Openers)
  <2>1. device \in {"pressed", "name"} \/ toDevice[1] = Byte("c")
    BY <1>1, <1>3, DeviceMoves
  <2>2. Only(toDevice, Openers)
    <3>1. CASE device \in {"pressed", "name"}
      BY <3>1 DEF Behind
    <3>2. CASE toDevice[1] = Byte("c")
      <4>1. 1 \in 1 .. Len(toDevice) /\ \A j \in 1 .. Len(toDevice) : 1 <= j
        BY <1>1
      <4> QED
        BY <3>2, <4>1 DEF Behind, Only
    <3> QED
      BY <2>1, <3>1, <3>2
  <2> QED
    BY <1>1, <2>2, OnlyTail
<1> QED
  BY <1>2, <1>3 DEF Behind

LEMMA ConsOf ==
  ASSUME NEW S, NEW s \in Seq(S), NEW m \in S
  PROVE  /\ <<m>> \o s \in Seq(S) /\ <<m>> \o s # <<>>
         /\ Len(<<m>> \o s) = 1 + Len(s) /\ Len(s) \in Nat
         /\ (<<m>> \o s)[1] = m
         /\ \A i \in 2 .. 1 + Len(s) : (<<m>> \o s)[i] = s[i - 1]
<1>1. <<m>> \in Seq(S) /\ Len(<<m>>) = 1 /\ <<m>>[1] = m /\ <<m>> # <<>>
  OBVIOUS
<1>2. /\ <<m>> \o s \in Seq(S)
      /\ Len(<<m>> \o s) = 1 + Len(s) /\ Len(s) \in Nat
      /\ \A i \in 1 .. 1 + Len(s) : (<<m>> \o s)[i] = IF i <= 1 THEN m ELSE s[i - 1]
  BY <1>1, ConcatProperties, LenProperties
<1>3. <<m>> \o s # <<>>
  BY <1>1, ConcatEqualIffEmpty
<1> QED
  BY <1>2, <1>3

\* The first message goes, or arrives damaged.
LEMMA BehindDamage ==
  ASSUME NEW s \in Seq(Messages), s # <<>>, NEW dev, Behind(s, dev),
         NEW t, t = Tail(s) \/ t = <<Byte("bad")>> \o Tail(s)
  PROVE  /\ Behind(t, dev)
         /\ FirstC(s, dev) => FirstC(t, dev)
         /\ Gone(s, dev) => Gone(t, dev)
         /\ Only(s, Openers) => Only(t, Openers)
<1>1. /\ Tail(s) \in Seq(Messages) /\ Len(Tail(s)) = Len(s) - 1 /\ Len(s) \in Nat \ {0}
      /\ \A i \in 1 .. Len(Tail(s)) : Tail(s)[i] = s[i + 1]
  BY TailOf
<1>2. Byte("bad") \in Messages /\ Byte("bad") \in Openers /\ Byte("bad") # Byte("c")
  <2>1. "bad" \in Keys /\ "c" \in Keys
    BY DEF Keys
  <2>2. Byte("bad").kind = "bad" /\ Byte("c").kind = "c"
    BY <2>1, OtherFields
  <2> QED
    BY <2>2, KeysIn DEF Openers, Junk
\* Each message of t is that of s at the same place or the next one, or bad.
<1>3. PICK k \in {0, 1} :
        /\ Len(t) \in Nat
        /\ \A i \in 1 .. Len(t) : \/ t[i] = Byte("bad")
                                  \/ i + k \in 2 .. Len(s) /\ t[i] = s[i + k]
  <2>1. CASE t = Tail(s)
    <3>1. Len(t) \in Nat /\ \A i \in 1 .. Len(t) : i + 1 \in 2 .. Len(s) /\ t[i] = s[i + 1]
      BY <1>1, <2>1
    <3> QED
      BY <3>1
  <2>2. CASE t = <<Byte("bad")>> \o Tail(s)
    <3>1. /\ Len(t) = 1 + Len(Tail(s)) /\ Len(Tail(s)) \in Nat
          /\ t[1] = Byte("bad")
          /\ \A i \in 2 .. 1 + Len(Tail(s)) : t[i] = Tail(s)[i - 1]
      BY <1>1, <1>2, <2>2, ConsOf
    <3> DEFINE n == Len(Tail(s))
    <3>2. n \in Nat /\ n = Len(s) - 1 /\ Len(t) = 1 + n /\ Len(s) \in Nat \ {0}
      BY <1>1, <3>1
    <3> HIDE DEF n
    <3>3. Len(t) = Len(s)
      BY <3>2
    <3>4. ASSUME NEW i \in 1 .. Len(t), i # 1 PROVE i + 0 \in 2 .. Len(s) /\ t[i] = s[i + 0]
      <4>1. i \in 2 .. 1 + n /\ i - 1 \in 1 .. n /\ (i - 1) + 1 = i /\ i \in 2 .. Len(s) /\ i + 0 = i
        BY <3>2, <3>3, <3>4
      <4>2. t[i] = Tail(s)[i - 1] /\ Tail(s)[i - 1] = s[(i - 1) + 1]
        BY <1>1, <3>1, <4>1 DEF n
      <4> QED
        BY <4>1, <4>2
    <3>5. 1 \in 1 .. Len(t) /\ t[1] = Byte("bad")
      BY <3>1, <3>2
    <3>6. Len(t) \in Nat
      BY <3>2
    <3> QED
      BY <3>4, <3>5, <3>6
  <2> QED
    BY <2>1, <2>2
<1>4. ASSUME NEW i \in 1 .. Len(t), NEW j \in 1 .. Len(t), i <= j, t[i] = Byte("c")
      PROVE  t[j] \in Openers
  <2>1. i + k \in 1 .. Len(s) /\ s[i + k] = Byte("c")
    BY <1>2, <1>3, <1>4
  <2>2. CASE t[j] = Byte("bad")
    BY <1>2, <2>2
  <2>3. CASE j + k \in 2 .. Len(s) /\ t[j] = s[j + k]
    <3>1. j + k \in 1 .. Len(s) /\ i + k <= j + k
      BY <1>3, <1>4, <2>3
    <3> QED
      BY <2>1, <2>3, <3>1 DEF Behind
  <2> QED
    BY <1>3, <2>2, <2>3
<1>5. Only(s, Openers) => Only(t, Openers)
  <2>1. \A i \in 2 .. Len(s) : i \in 1 .. Len(s)
    BY <1>1
  <2> QED
    BY <1>2, <1>3, <2>1 DEF Only
<1>6. ASSUME FirstC(s, dev) \/ Gone(s, dev), NEW i \in 1 .. Len(t), t[i] = Byte("c") PROVE FALSE
  <2>1. i + k \in 1 .. Len(s) /\ i + k # 1 /\ s[i + k] = Byte("c")
    BY <1>2, <1>3, <1>6
  <2> QED
    BY <1>6, <2>1 DEF FirstC, Gone
<1>7. FirstC(s, dev) => FirstC(t, dev)
  BY <1>6 DEF FirstC
<1>8. Gone(s, dev) => Gone(t, dev)
  BY <1>6 DEF Gone
<1> QED
  BY <1>4, <1>5, <1>7, <1>8 DEF Behind

LEMMA BehindAppend ==
  ASSUME NEW s \in Seq(Messages), NEW dev, Behind(s, dev),
         NEW m \in Messages, m # Byte("c"), m \in Openers \/ Gone(s, dev)
  PROVE  /\ Behind(Append(s, m), dev)
         /\ FirstC(s, dev) => FirstC(Append(s, m), dev)
         /\ Gone(s, dev) => Gone(Append(s, m), dev)
<1> DEFINE t == Append(s, m)
<1>1. /\ Len(t) = Len(s) + 1 /\ Len(s) \in Nat
      /\ \A i \in 1 .. Len(s) : t[i] = s[i]
      /\ t[Len(s) + 1] = m
  BY AppendProperties, LenProperties
<1> HIDE DEF t
<1>2. \A i \in 1 .. Len(t) : t[i] = Byte("c") => i \in 1 .. Len(s) /\ s[i] = Byte("c")
  BY <1>1
<1>3. ASSUME NEW i \in 1 .. Len(t), NEW j \in 1 .. Len(t), i <= j, t[i] = Byte("c")
      PROVE  t[j] \in Openers
  <2>1. i \in 1 .. Len(s) /\ s[i] = Byte("c")
    BY <1>2, <1>3
  <2>2. CASE j \in 1 .. Len(s)
    BY <1>1, <1>3, <2>1, <2>2 DEF Behind
  <2>3. CASE j = Len(s) + 1
    BY <1>1, <2>1, <2>3 DEF Gone
  <2> QED
    BY <1>1, <2>2, <2>3
<1>4. dev \in {"pressed", "name"} => Only(t, Openers)
  <2> SUFFICES ASSUME dev \in {"pressed", "name"} PROVE Only(t, Openers)
    OBVIOUS
  <2>1. m \in Openers /\ Only(s, Openers)
    BY DEF Gone, Behind
  <2> QED
    BY <2>1, OnlyAppend DEF t
<1>5. Behind(t, dev)
  BY <1>3, <1>4 DEF Behind
<1>6. FirstC(s, dev) => FirstC(t, dev)
  BY <1>2 DEF FirstC
<1>7. Gone(s, dev) => Gone(t, dev)
  BY <1>2 DEF Gone
<1> QED
  BY <1>5, <1>6, <1>7 DEF t

LEMMA BehindStart ==
  ASSUME NEW s \in Seq(Messages), NEW dev, Behind(s, dev)
  PROVE  Behind(s \o <<Byte("c"), Byte("1")>>, dev)
<1> DEFINE w == <<Byte("c"), Byte("1")>>
           t == s \o w
<1>1. w \in Seq(Messages) /\ Len(w) = 2 /\ \A i \in 1 .. Len(w) : w[i] \in Openers
  BY KeysIn DEF Openers, Junk
<1> HIDE DEF w
<1>2. /\ Len(t) = Len(s) + Len(w) /\ Len(s) \in Nat
      /\ \A i \in 1 .. Len(s) + Len(w) : t[i] = IF i <= Len(s) THEN s[i] ELSE w[i - Len(s)]
  BY <1>1, ConcatProperties, LenProperties
<1> HIDE DEF t
<1>3. \A i \in 1 .. Len(t) : \/ i \in 1 .. Len(s) /\ t[i] = s[i]
                             \/ i > Len(s) /\ t[i] \in Openers
  <2> TAKE i \in 1 .. Len(t)
  <2>1. CASE i <= Len(s)
    BY <1>1, <1>2, <2>1
  <2>2. CASE ~(i <= Len(s))
    <3>1. i - Len(s) \in 1 .. Len(w) /\ t[i] = w[i - Len(s)] /\ i > Len(s)
      BY <1>1, <1>2, <2>2
    <3> QED
      BY <1>1, <3>1
  <2> QED
    BY <2>1, <2>2
<1>4. ASSUME NEW i \in 1 .. Len(t), NEW j \in 1 .. Len(t), i <= j, t[i] = Byte("c")
      PROVE  t[j] \in Openers
  <2>1. CASE j > Len(s)
    BY <1>2, <1>3, <2>1
  <2>2. CASE ~(j > Len(s))
    <3>1. i \in 1 .. Len(s) /\ j \in 1 .. Len(s) /\ t[i] = s[i] /\ t[j] = s[j]
      BY <1>1, <1>2, <1>3, <1>4, <2>2
    <3> QED
      BY <1>4, <3>1 DEF Behind
  <2> QED
    BY <2>1, <2>2
<1>5. dev \in {"pressed", "name"} => Only(t, Openers)
  BY <1>3 DEF Behind, Only
<1> QED
  BY <1>4, <1>5 DEF Behind, t, w

\* Two messages more.
LEMMA TwoMore ==
  ASSUME NEW s \in Seq(Messages), NEW c \in Messages
  PROVE  s \o <<c, c>> = Append(Append(s, c), c)
<1> DEFINE t == Append(s, c)
<1>1. t \in Seq(Messages)
  BY AppendProperties
<1>2. t = s \o <<c>> /\ Append(t, c) = t \o <<c>> /\ <<c>> \in Seq(Messages)
  BY <1>1, AppendIsConcat
<1>3. (s \o <<c>>) \o <<c>> = s \o (<<c>> \o <<c>>)
  BY <1>2, ConcatAssociative
<1>4. <<c>> \o <<c>> = <<c, c>>
  <2>1. Append(<<c>>, c) = <<c, c>> /\ Append(<<c>>, c) = <<c>> \o <<c>>
    BY <1>2, Short, AppendIsConcat
  <2> QED
    BY <2>1
<1> QED
  BY <1>2, <1>3, <1>4

\* What the device sends for a message: an ACK only with these, a C never first.
LEMMA NewAck ==
  ASSUME YmodemTypes,
         NEW s \in {<<>>, <<"ACK">>, <<"NAK">>, <<"CAN">>, <<"ACK", "CRC">>}, s \in Seq(Answers),
         toHost' = toHost \o s, NEW i \in 1 .. Len(toHost'), toHost'[i] = "ACK",
         ~\E j \in 1 .. Len(toHost) : toHost[j] = "ACK"
  PROVE  s \in {<<"ACK">>, <<"ACK", "CRC">>}
<1>1. /\ Len(toHost') = Len(toHost) + Len(s) /\ Len(toHost) \in Nat /\ Len(s) \in Nat
      /\ \A j \in 1 .. Len(toHost) + Len(s) :
            toHost'[j] = IF j <= Len(toHost) THEN toHost[j] ELSE s[j - Len(toHost)]
  BY ConcatProperties, LenProperties DEF YmodemTypes
<1>2. ~(i <= Len(toHost))
  BY <1>1
<1>3. i - Len(toHost) \in 1 .. Len(s) /\ s[i - Len(toHost)] = "ACK"
  BY <1>1, <1>2
<1>4. PICK k \in 1 .. Len(s) : s[k] = "ACK"
  BY <1>3
<1>5. Len(<<>>) = 0 /\ Len(<<"NAK">>) = 1 /\ Len(<<"CAN">>) = 1
      /\ <<"NAK">>[1] = "NAK" /\ <<"CAN">>[1] = "CAN"
  OBVIOUS
<1>6. s # <<>>
  BY <1>4, <1>5
<1>7. s # <<"NAK">>
  BY <1>4, <1>5
<1>8. s # <<"CAN">>
  BY <1>4, <1>5
<1> QED
  BY <1>6, <1>7, <1>8

LEMMA NoNewCrc ==
  ASSUME YmodemTypes,
         NEW s \in {<<>>, <<"ACK">>, <<"NAK">>, <<"CAN">>, <<"ACK", "CRC">>}, s \in Seq(Answers),
         toHost' = toHost \o s, toHost' # <<>>, Head(toHost') = "CRC"
  PROVE  toHost # <<>> /\ Head(toHost) = "CRC"
<1>1. CASE toHost = <<>>
  <2>1. toHost' = s
    BY <1>1, HeadOfMore
  <2>2. s # <<>> /\ Head(s) = "CRC"
    BY <2>1
  <2>3. Head(<<"ACK">>) = "ACK" /\ Head(<<"NAK">>) = "NAK" /\ Head(<<"CAN">>) = "CAN"
        /\ Head(<<"ACK", "CRC">>) = "ACK"
    BY Short
  <2> QED
    BY <2>2, <2>3
<1>2. CASE toHost # <<>>
  BY <1>2, HeadOfMore
<1> QED
  BY <1>1, <1>2

LEMMA BehindSender ==
  ASSUME YmodemTypes, BehindInv, Sender
  PROVE  BehindInv'
<1>1. PICK ch \in Answers \cup {TimedOut} :
        /\ Getchar(ch)
        /\ Prompt(ch) \/ NameAnswer(ch) \/ Go(ch) \/ DataAnswer(ch) \/ EotAnswer(ch)
             \/ EndGo(ch) \/ NullAnswer(ch)
  BY DEF Sender
<1>2. /\ attempt' = attempt /\ device' = device /\ stored' = stored
      /\ toDevice \in Seq(Messages) /\ toHost \in Seq(Answers)
  BY DEF Sender, bootloader, YmodemTypes
<1>3. /\ pc' = "prompt" => pc = "prompt" /\ toHost = <<>> /\ toHost' = <<>> /\ toDevice' = toDevice
      /\ pc \in Steps /\ pc' \in Steps \cup {"sent", "failed"}
  BY <1>1, SenderSends
<1>4. pc' # "idle" /\ attempt # 0
  BY <1>3 DEF Steps, YmodemTypes
<1>5. Heeded' => Heeded
  <2>1. ASSUME NEW i \in 1 .. Len(toHost'), toHost'[i] = "ACK"
        PROVE  \E j \in 1 .. Len(toHost) : toHost[j] = "ACK"
    <3>1. CASE toHost' = toHost
      BY <2>1, <3>1
    <3>2. CASE toHost # <<>> /\ toHost' = Tail(toHost)
      <4>1. /\ Len(toHost') = Len(toHost) - 1 /\ Len(toHost) \in Nat \ {0}
            /\ \A k \in 1 .. Len(toHost') : toHost'[k] = toHost[k + 1]
        BY <1>2, <3>2, TailOf
      <4>2. i + 1 \in 1 .. Len(toHost) /\ toHost[i + 1] = "ACK"
        BY <2>1, <4>1
      <4> QED
        BY <4>2
    <3> QED
      BY <1>1, <3>1, <3>2, Reads
  <2>2. ASSUME toHost # <<>>, Head(toHost) = "ACK"
        PROVE  \E j \in 1 .. Len(toHost) : toHost[j] = "ACK"
    <3>1. 1 \in 1 .. Len(toHost) /\ toHost[1] = "ACK"
      BY <1>2, <2>2, TailOf
    <3> QED
      BY <3>1
  <2>3. pc' \in Later => pc \in Later \/ (toHost # <<>> /\ Head(toHost) = "ACK")
    BY <1>1, SenderSends
  <2> QED
    BY <2>1, <2>2, <2>3 DEF Heeded
<1>6. attempt' = 1 => FirstBehind'
  <2> SUFFICES ASSUME attempt = 1 PROVE FirstBehind'
    BY <1>2
  <2> DEFINE G(s) == Behind(s, device) /\ FirstC(s, device) /\ (Heeded => Gone(s, device))
  <2>1. G(toDevice)
    BY DEF BehindInv, FirstBehind
  <2>2. ASSUME NEW s \in Seq(Messages), G(s), NEW m \in Messages, m # Byte("c"),
               m \in Openers \/ Heeded
        PROVE  G(Append(s, m)) /\ Append(s, m) \in Seq(Messages)
    <3>1. m \in Openers \/ Gone(s, device)
      BY <2>2
    <3>2. Behind(s, device)
      BY <2>2
    <3>3. /\ Behind(Append(s, m), device)
          /\ FirstC(s, device) => FirstC(Append(s, m), device)
          /\ Gone(s, device) => Gone(Append(s, m), device)
      BY <2>2, <3>1, <3>2, BehindAppend
    <3> QED
      BY <2>2, <3>3, AppendProperties
  <2> HIDE DEF G
  <2>3. G(toDevice')
    <3>1. CASE toDevice' = toDevice
      BY <2>1, <3>1
    <3>2. ASSUME NEW m \in Messages, toDevice' = Append(toDevice, m),
                 m \notin {Byte("c"), Byte("1"), Byte("run")}, m = Name \/ pc \in Later
          PROVE  G(toDevice')
      <4>1. m # Byte("c") /\ (m \in Openers \/ Heeded)
        BY <3>2 DEF Openers, Heeded
      <4>2. G(Append(toDevice, m))
        BY <1>2, <2>1, <2>2, <4>1
      <4> QED
        BY <3>2, <4>2
    <3>3. CASE toDevice' = toDevice \o <<Byte("CAN"), Byte("CAN")>>
      <4> DEFINE c == Byte("CAN")
                 t == Append(toDevice, c)
      <4>1. c \in Messages /\ c \in Openers /\ c # Byte("c")
        BY KeysIn, KeysApart DEF Openers, Junk
      <4>2. toDevice' = Append(t, c)
        BY <1>2, <3>3, <4>1, TwoMore
      <4> HIDE DEF c
      <4>3. G(t) /\ t \in Seq(Messages)
        BY <1>2, <2>1, <2>2, <4>1
      <4> HIDE DEF t
      <4>4. G(Append(t, c))
        BY <2>2, <4>1, <4>3
      <4> QED
        BY <4>2, <4>4
    <3> QED
      BY <1>1, <3>1, <3>2, <3>3, SenderSends
  <2>4. Behind(toDevice', device) /\ FirstC(toDevice', device) /\ (Heeded => Gone(toDevice', device))
    BY <2>3 DEF G
  <2>5. Behind(toDevice', device') /\ FirstC(toDevice', device') /\ (Heeded => Gone(toDevice', device'))
    BY <1>2, <2>4
  <2> QED
    BY <1>5, <2>5 DEF FirstBehind
<1> QED
  BY <1>2, <1>3, <1>4, <1>6 DEF BehindInv

LEMMA BehindDevice ==
  ASSUME YmodemTypes, BehindInv, Device
  PROVE  BehindInv'
<1> DEFINE m == Head(toDevice)
<1>1. /\ toDevice # <<>> /\ toDevice' = Tail(toDevice) /\ toDevice \in Seq(Messages)
      /\ Len(toDevice') = Len(toDevice) - 1 /\ Len(toDevice) \in Nat \ {0}
      /\ \A i \in 1 .. Len(toDevice') : i + 1 \in 1 .. Len(toDevice) /\ toDevice'[i] = toDevice[i + 1]
      /\ m = toDevice[1] /\ 1 \in 1 .. Len(toDevice)
      /\ pc' = pc /\ attempt' = attempt
  <2>1. /\ toDevice # <<>> /\ toDevice' = Tail(toDevice) /\ toDevice \in Seq(Messages)
        /\ Len(toDevice') = Len(toDevice) - 1 /\ Len(toDevice) \in Nat \ {0}
        /\ \A i \in 1 .. Len(toDevice') : toDevice'[i] = toDevice[i + 1]
        /\ m = toDevice[1]
    BY DeviceFrame, TailOf DEF YmodemTypes
  <2>2. \A i \in 1 .. Len(toDevice') : i + 1 \in 1 .. Len(toDevice)
    BY <2>1
  <2> QED
    BY <2>1, <2>2, DeviceFrame
<1>2. /\ device' = "pressed" => m = Byte("c")
      /\ device' = "name" => device \in {"pressed", "name"}
  BY DeviceMoves
<1>3. PICK s \in {<<>>, <<"ACK">>, <<"NAK">>, <<"CAN">>, <<"ACK", "CRC">>} :
               /\ toHost' = toHost \o s
               /\ s \in {<<"ACK">>, <<"ACK", "CRC">>} => device' \in {"data", "null", "menu"}
  BY DeviceMoves
<1>4. s \in Seq(Answers) /\ toHost \in Seq(Answers)
  <2>1. "ACK" \in Answers /\ "NAK" \in Answers /\ "CAN" \in Answers /\ "CRC" \in Answers
    BY DEF Answers
  <2>2. \A a, b \in Answers : <<>> \in Seq(Answers) /\ <<a>> \in Seq(Answers) /\ <<a, b>> \in Seq(Answers)
    OBVIOUS
  <2> QED
    BY <2>1, <2>2 DEF YmodemTypes
<1>5. m \in Openers /\ (device = "data" => stored = <<>>) => (device' = "data" => stored' = <<>>)
  <2> SUFFICES ASSUME m \in Openers, device = "data" => stored = <<>>, device' = "data"
               PROVE  stored' = <<>>
    OBVIOUS
  <2>1. CASE m \in Junk
    <3>1. device = "data" /\ stored' = stored
      BY <2>1, HearsJunk DEF YmodemTypes
    <3> QED
      BY <3>1
  <2>2. CASE m = Name
    BY <2>2, HearsOpener
  <2> QED
    BY <2>1, <2>2 DEF Openers
<1> HIDE DEF m
<1>6. pc' \in {"idle", "prompt"} => Behind(toDevice', device')
  BY <1>1, BehindTail DEF BehindInv
<1>7. attempt' # 0
  BY <1>1 DEF BehindInv
<1>8. attempt' = 1 => FirstBehind'
  <2> SUFFICES ASSUME attempt = 1 PROVE FirstBehind'
    BY <1>1
  <2>1. FirstBehind
    BY DEF BehindInv
  <2>2. Behind(toDevice', device')
    BY <2>1, BehindTail DEF FirstBehind
  <2>3. \A i \in 1 .. Len(toDevice') : toDevice'[i] # Byte("c")
    <3> SUFFICES ASSUME NEW i \in 1 .. Len(toDevice'), toDevice'[i] = Byte("c") PROVE FALSE
      OBVIOUS
    <3>1. i + 1 \in 1 .. Len(toDevice) /\ toDevice[i + 1] = Byte("c")
      BY <1>1
    <3>2. i + 1 = 1
      BY <2>1, <3>1 DEF FirstBehind, FirstC
    <3> QED
      BY <3>2
  <2>4. ASSUME Gone(toDevice, device) PROVE Gone(toDevice', device')
    <3>1. m # Byte("c") /\ device \notin {"pressed", "name"}
      BY <1>1, <2>4 DEF Gone
    <3> QED
      BY <1>2, <2>3, <3>1 DEF Gone
  <2>5. ASSUME NEW i \in 1 .. Len(toHost'), toHost'[i] = "ACK" PROVE Gone(toDevice', device')
    <3>1. CASE \E j \in 1 .. Len(toHost) : toHost[j] = "ACK"
      BY <2>1, <2>4, <3>1 DEF FirstBehind, Heeded
    <3>2. CASE ~\E j \in 1 .. Len(toHost) : toHost[j] = "ACK"
      <4>1. s \in {<<"ACK">>, <<"ACK", "CRC">>}
        BY <1>3, <1>4, <2>5, <3>2, NewAck
      <4> QED
        BY <1>3, <2>3, <4>1 DEF Gone
    <3> QED
      BY <3>1, <3>2
  <2>6. pc' \in Later => Gone(toDevice', device')
    BY <1>1, <2>1, <2>4 DEF FirstBehind, Heeded
  <2>7. FirstC(toDevice', device')
    BY <2>3 DEF FirstC
  <2> QED
    BY <2>2, <2>5, <2>6, <2>7 DEF FirstBehind, Heeded
<1>9. pc' = "prompt" /\ toHost' # <<>> /\ Head(toHost') = "CRC" =>
        Only(toDevice', Openers) /\ (device' = "data" => stored' = <<>>)
  <2> SUFFICES ASSUME pc = "prompt", toHost' # <<>>, Head(toHost') = "CRC"
               PROVE  Only(toDevice', Openers) /\ (device' = "data" => stored' = <<>>)
    BY <1>1
  <2>1. toHost # <<>> /\ Head(toHost) = "CRC"
    BY <1>3, <1>4, NoNewCrc
  <2>2. Only(toDevice, Openers) /\ (device = "data" => stored = <<>>)
    BY <2>1 DEF BehindInv
  <2>3. Only(toDevice', Openers) /\ m \in Openers
    BY <1>1, <2>2, OnlyTail DEF m
  <2> QED
    BY <1>5, <2>2, <2>3
<1> QED
  BY <1>6, <1>7, <1>8, <1>9 DEF BehindInv

LEMMA BehindFault ==
  ASSUME YmodemTypes, BehindInv, Fault
  PROVE  BehindInv'
<1>1. /\ pc' = pc /\ attempt' = attempt /\ device' = device /\ stored' = stored
      /\ toDevice \in Seq(Messages)
  BY FaultFrame DEF YmodemTypes
<1>2. CASE /\ toDevice # <<>> /\ toHost' = toHost
           /\ toDevice' = Tail(toDevice) \/ toDevice' = <<Byte("bad")>> \o Tail(toDevice)
  <2>1. ASSUME Behind(toDevice, device)
        PROVE  /\ Behind(toDevice', device)
               /\ FirstC(toDevice, device) => FirstC(toDevice', device)
               /\ Gone(toDevice, device) => Gone(toDevice', device)
               /\ Only(toDevice, Openers) => Only(toDevice', Openers)
    BY <1>1, <1>2, <2>1, BehindDamage
  <2>2. attempt # 0
    BY <1>2 DEF BehindInv
  <2>3. attempt' = 1 => FirstBehind'
    BY <1>1, <1>2, <2>1 DEF BehindInv, FirstBehind, Heeded
  <2>4. pc' \in {"idle", "prompt"} => Behind(toDevice', device')
    BY <1>1, <2>1 DEF BehindInv
  <2>5. pc' = "prompt" /\ toHost' # <<>> /\ Head(toHost') = "CRC" =>
          Only(toDevice', Openers) /\ (device' = "data" => stored' = <<>>)
    BY <1>1, <1>2, <2>1 DEF BehindInv
  <2> QED
    BY <1>1, <2>2, <2>3, <2>4, <2>5 DEF BehindInv
<1>3. CASE /\ toDevice' = toDevice
           /\ \/ toHost # <<>> /\ toHost' = Front(toHost)
              \/ toHost # <<>> /\ toHost' = Append(Front(toHost), "noise")
              \/ toHost' = Append(toHost, "noise")
  <2>1. \A i \in 1 .. Len(toHost') : toHost'[i] = "ACK" => i \in 1 .. Len(toHost) /\ toHost[i] = "ACK"
    BY <1>3, NothingHeard
  <2>2. toHost' # <<>> /\ Head(toHost') = "CRC" => toHost # <<>> /\ Head(toHost) = "CRC"
    BY <1>3, NothingHeard
  <2>3. attempt' = 1 => FirstBehind'
    BY <1>1, <1>3, <2>1 DEF BehindInv, FirstBehind, Heeded
  <2> QED
    BY <1>1, <1>3, <2>2, <2>3 DEF BehindInv
<1> QED
  BY <1>2, <1>3, FaultFrame

LEMMA BehindStep == YmodemTypes /\ BehindInv /\ [Next]_vars => BehindInv'
<1> SUFFICES ASSUME YmodemTypes, BehindInv, [Next]_vars PROVE BehindInv'
  OBVIOUS
<1>0. Len(<<>>) = 0
  OBVIOUS
<1>1. CASE Start
  <2>1. /\ pc = "idle" /\ attempt' = attempt + 1 /\ pc' = "prompt"
        /\ toDevice' = toDevice \o <<Byte("c"), Byte("1")>> /\ toHost' = <<>>
        /\ device' = device /\ stored' = stored /\ toDevice \in Seq(Messages) /\ attempt \in Nat
    BY <1>1 DEF Start, YmodemTypes
  <2>2. Behind(toDevice', device')
    <3>1. Behind(toDevice, device)
      BY <2>1 DEF BehindInv
    <3> QED
      BY <2>1, <3>1, BehindStart
  <2>3. attempt' = 1 => FirstBehind'
    <3> SUFFICES ASSUME attempt' = 1 PROVE FirstBehind'
      OBVIOUS
    <3>1. attempt = 0
      BY <2>1
    <3>2. device = "menu" /\ toDevice = <<>>
      BY <3>1 DEF BehindInv
    <3>3. toDevice' = <<Byte("c"), Byte("1")>>
      BY <2>1, <3>2, KeysIn, Short
    <3>4. FirstC(toDevice', device')
      <4>1. Byte("1") # Byte("c")
        BY KeysApart
      <4>2. Len(<<Byte("c"), Byte("1")>>) = 2 /\ <<Byte("c"), Byte("1")>>[2] = Byte("1")
        OBVIOUS
      <4> QED
        BY <2>1, <3>2, <3>3, <4>1, <4>2 DEF FirstC
    <3>5. ~Heeded'
      BY <1>0, <2>1 DEF Heeded, Later
    <3> QED
      BY <2>2, <3>4, <3>5 DEF FirstBehind
  <2>4. attempt' # 0
    BY <2>1
  <2> QED
    BY <2>1, <2>2, <2>3, <2>4 DEF BehindInv
<1>2. CASE Return
  <2>1. /\ attempt' = attempt /\ toHost' = toHost /\ device' = device /\ stored' = stored
        /\ toDevice \in Seq(Messages) /\ pc' # "prompt" /\ attempt # 0
    BY <1>2 DEF Return, bootloader, YmodemTypes
  <2>2. CASE pc = "sent" /\ toDevice' = Append(toDevice, Byte("run")) /\ pc' = "done"
    <3>1. attempt' = 1 => FirstBehind'
      <4> SUFFICES ASSUME attempt = 1 PROVE FirstBehind'
        BY <2>1
      <4>1. FirstBehind /\ Gone(toDevice, device)
        BY <2>2 DEF BehindInv, FirstBehind, Heeded, Later
      <4>2. Byte("run") \in Messages /\ Byte("run") # Byte("c")
        BY KeysIn, KeysApart
      <4>3. /\ Behind(Append(toDevice, Byte("run")), device)
            /\ FirstC(Append(toDevice, Byte("run")), device)
            /\ Gone(Append(toDevice, Byte("run")), device)
        BY <2>1, <4>1, <4>2, BehindAppend DEF FirstBehind
      <4> QED
        BY <2>1, <2>2, <4>3 DEF FirstBehind
    <3> QED
      BY <2>1, <2>2, <3>1 DEF BehindInv
  <2>3. CASE pc = "failed" /\ toDevice' = toDevice /\ pc' = IF attempt < 2 THEN "idle" ELSE "done"
    <3>1. attempt' = 1 => FirstBehind'
      BY <2>1, <2>3 DEF BehindInv, FirstBehind, Heeded, Later
    <3>2. pc' = "idle" => attempt = 1
      BY <2>1, <2>3 DEF YmodemTypes
    <3> QED
      BY <2>1, <2>3, <3>1, <3>2 DEF BehindInv, FirstBehind
  <2> QED
    BY <1>2, <2>2, <2>3 DEF Return, Send
<1>3. CASE DevicePrompt
  <2>1. /\ device = "name" /\ toHost' = Append(toHost, "CRC") /\ toHost \in Seq(Answers)
        /\ pc' = pc /\ attempt' = attempt
        /\ toDevice' = toDevice /\ device' = device /\ stored' = stored
    BY <1>3 DEF DevicePrompt, sender, YmodemTypes
  <2>2. ASSUME NEW i \in 1 .. Len(toHost'), toHost'[i] = "ACK"
        PROVE  i \in 1 .. Len(toHost) /\ toHost[i] = "ACK"
    <3>1. /\ Len(toHost') = Len(toHost) + 1 /\ Len(toHost) \in Nat
          /\ \A j \in 1 .. Len(toHost) : toHost'[j] = toHost[j]
          /\ toHost'[Len(toHost) + 1] = "CRC"
      <4>1. "CRC" \in Answers
        BY DEF Answers
      <4> QED
        BY <2>1, <4>1, AppendProperties, LenProperties
    <3> QED
      BY <2>2, <3>1
  <2>3. attempt' = 1 => FirstBehind'
    BY <2>1, <2>2 DEF BehindInv, FirstBehind, Heeded
  <2>4. pc = "prompt" => Only(toDevice, Openers)
    BY <2>1 DEF BehindInv, Behind
  <2> QED
    BY <2>1, <2>3, <2>4 DEF BehindInv
<1>4. CASE GiveUp
  <2>1. /\ toDevice = <<>> /\ (pc = "prompt" => toHost = <<>>) /\ device' = "menu"
        /\ pc' = pc /\ attempt' = attempt
        /\ toDevice' = toDevice /\ toHost' = toHost /\ stored' = stored
    BY <1>4 DEF GiveUp, sender
  <2>2. Behind(toDevice', device') /\ Gone(toDevice', device') /\ FirstC(toDevice', device')
    BY <1>0, <2>1 DEF Behind, Only, Gone, FirstC
  <2> QED
    BY <2>1, <2>2 DEF BehindInv, FirstBehind
<1>5. CASE UNCHANGED vars
  <2>1. /\ pc' = pc /\ attempt' = attempt
        /\ toDevice' = toDevice /\ device' = device /\ stored' = stored /\ toHost' = toHost
    BY <1>5 DEF vars, sender, bootloader
  <2> QED
    BY <2>1 DEF BehindInv, FirstBehind, Heeded
<1>6. CASE Done
  BY <1>5, <1>6 DEF Done
<1> QED
  BY <1>1, <1>2, <1>3, <1>4, <1>5, <1>6, BehindSender, BehindDevice, BehindFault DEF Next

LEMMA InitBehind == Init => BehindInv
<1>1. Len(<<>>) = 0
  OBVIOUS
<1>2. Behind(<<>>, "menu")
  BY <1>1 DEF Behind, Only
<1> QED
  BY <1>2 DEF Init, BehindInv

\* A file that is begun finds nothing of an earlier one in front of it, whatever
\* goes wrong.
THEOREM UploadBeginsClean == Spec => []BehindInv
<1>1. Init => BehindInv
  BY InitBehind
<1>2. YmodemTypes /\ BehindInv /\ [Next]_vars => BehindInv'
  BY BehindStep
<1> QED
  BY <1>1, <1>2, UploadTyped, PTL DEF Spec

-----------------------------------------------------------------------------
(***************************************************************************)
(* Then the blocks.  A packet is only lost or damaged when it is the first *)
(* one under way, so the packets that are under way have no gap among      *)
(* themselves, and in front of them no more are missing than were lost.    *)
(***************************************************************************)
\* Few enough for the number of a packet to tell it from the one the device
\* waits for.
Few == damaged + 1 < Wrap /\ damaged <= (Blocks + 1) % Wrap

LEMMA SameBlock ==
  ASSUME NEW a \in Nat, NEW b \in Nat, b <= a, a < b + Wrap, a % Wrap = b % Wrap
  PROVE  a = b
<1> USE Numbers
<1> DEFINE qa == a \div Wrap
           qb == b \div Wrap
           r == b % Wrap
<1>1. qa \in Nat /\ qb \in Nat /\ r \in 0 .. Wrap - 1 /\ a = qa * Wrap + r /\ b = qb * Wrap + r
  OBVIOUS
<1> HIDE DEF qa, qb, r
<1>2. (qa - qb) * Wrap = a - b
  BY <1>1
<1>3. CASE qa - qb <= 0
  <2>1. (qa - qb) * Wrap <= 0
    BY <1>1, <1>3
  <2> QED
    BY <1>2, <2>1
<1>4. CASE qa - qb >= 1
  <2>1. (qa - qb) * Wrap >= Wrap
    BY <1>1, <1>4
  <2> QED
    BY <1>2, <2>1
<1> QED
  BY <1>1, <1>3, <1>4

\* The empty packet is not taken for a block.
LEMMA NullApart ==
  ASSUME NEW d \in 0 .. Blocks, NEW k \in Nat, k <= (Blocks + 1) % Wrap, Blocks + 1 <= d + k
  PROVE  (d + 1) % Wrap # 0
<1> USE Numbers
<1> SUFFICES ASSUME (d + 1) % Wrap = 0 PROVE FALSE
  OBVIOUS
<1> DEFINE qd == (d + 1) \div Wrap
           qb == (Blocks + 1) \div Wrap
           r == (Blocks + 1) % Wrap
<1>1. qd \in Nat /\ qb \in Nat /\ r \in 0 .. Wrap - 1 /\ d + 1 = qd * Wrap
      /\ Blocks + 1 = qb * Wrap + r /\ k <= r
  OBVIOUS
<1> HIDE DEF qd, qb, r
<1>2. (qb - qd) * Wrap <= -1
  BY <1>1
<1>3. CASE qb - qd >= 0
  <2>1. (qb - qd) * Wrap >= 0
    BY <1>1, <1>3
  <2> QED
    BY <1>2, <2>1
<1>4. CASE qb - qd <= -1
  <2>1. (qb - qd) * Wrap <= -1 * Wrap
    BY <1>1, <1>4
  <2>2. Blocks + 1 - r - (d + 1) <= -1 * Wrap
    BY <1>1, <2>1
  <2> QED
    BY <1>1, <2>2
<1> QED
  BY <1>1, <1>3, <1>4

\* The device has sto, and the last packet that was delivered to it or lost is at
\* place e: when it waits for a block, of the places up to e it misses at most k.
Upto(e) == IF e <= Blocks THEN e ELSE Blocks + 1
InStep(e, dev, sto, k) ==
  /\ \A n \in 1 .. Len(sto) : sto[n] = n
  /\ dev = "data" => Len(sto) <= Blocks /\ Len(sto) <= e /\ Upto(e) <= Len(sto) + k

LEMMA InStepDevice ==
  ASSUME YmodemTypes, Few, Device, NEW e \in Nat, InStep(e, device, stored, damaged),
         Pos(Head(toDevice)) \in {e, e + 1}, Pos(Head(toDevice)) \in 0 .. Blocks + 3
  PROVE  InStep(Pos(Head(toDevice)), device', stored', damaged)
<1> USE Numbers
<1> DEFINE m == Head(toDevice)
           q == Pos(m)
           D == Len(stored)
<1>1. /\ m \in Messages /\ stored \in Seq(0 .. Blocks) /\ damaged \in Nat /\ D \in Nat
      /\ q \in {e, e + 1} /\ q \in 0 .. Blocks + 3
      /\ \A n \in 1 .. Len(stored) : stored[n] = n
  BY DeviceFrame, LenProperties DEF YmodemTypes, InStep
<1>2. device = "data" => D <= Blocks /\ D <= e /\ Upto(e) <= D + damaged
  BY DEF InStep
<1>3. ASSUME stored' = stored, device' # "data" PROVE InStep(q, device', stored', damaged)
  BY <1>1, <1>3 DEF InStep
<1>4. CASE q = 0
  <2>1. m = Name /\ e = 0 /\ Name.kind = "name"
    BY <1>1, <1>4, AtPlace, OtherFields
  <2>2. CASE device \in {"menu", "pressed", "running"}
    BY <1>3, <2>1, <2>2, HearsInMenu
  <2>3. CASE device = "null"
    BY <1>3, <2>1, <2>3, HearsName
  <2>4. CASE device \in {"name", "data"}
    <3>1. device = "data" => stored = <<>>
      BY <1>1, <1>2, <2>1, EmptySeq
    <3>2. device' = "data" /\ stored' = <<>>
      BY <2>1, <2>4, <3>1, HearsName
    <3>3. Len(<<>>) = 0
      OBVIOUS
    <3>4. InStep(0, device', stored', damaged)
      BY <1>1, <3>2, <3>3 DEF InStep, Upto
    <3> QED
      BY <1>4, <3>4
  <2> QED
    BY <2>2, <2>3, <2>4 DEF YmodemTypes
<1>5. CASE q \in 1 .. Blocks
  <2>1. m = Block(q) /\ Block(q).kind = "block"
    BY <1>1, <1>5, AtPlace, BlockFields
  <2>2. CASE device \in {"menu", "pressed", "running"}
    BY <1>3, <2>1, <2>2, HearsInMenu
  <2>3. CASE device \in {"name", "null"}
    BY <1>3, <1>5, <2>1, <2>3, HearsBlock
  <2>4. CASE device = "data"
    <3>1. D <= Blocks /\ D <= q /\ q <= D + damaged + 1 /\ damaged + 1 < Wrap
      <4>1. e <= Blocks /\ Upto(e) = e
        BY <1>1, <1>5 DEF Upto
      <4> QED
        BY <1>1, <1>2, <2>4, <4>1 DEF Few
    <3>2. CASE q % Wrap = Expected
      <4>1. q # D
        BY <1>1, <3>2, Neighbours DEF Expected
      <4>2. D + 1 \in Nat /\ q \in Nat /\ D + 1 <= q /\ q < (D + 1) + Wrap /\ q % Wrap = (D + 1) % Wrap
        BY <1>1, <3>1, <3>2, <4>1 DEF Expected
      <4> HIDE DEF q, D
      <4>3. q = D + 1
        BY <4>2, SameBlock
      <4>4. device' = "data" /\ stored' = Append(stored, q)
        BY <1>5, <2>1, <2>4, <3>2, HearsBlock
      <4>5. /\ Len(stored') = D + 1 /\ \A i \in 1 .. D : stored'[i] = stored[i]
            /\ stored'[D + 1] = q
        BY <1>1, <1>5, <4>4, AppendProperties DEF D
      <4>6. \A n \in 1 .. Len(stored') : stored'[n] = n
        BY <1>1, <4>3, <4>5 DEF D
      <4>7. Len(stored') = q /\ q <= Blocks
        BY <1>5, <4>3, <4>5
      <4>8. Upto(q) = q /\ q <= q + damaged /\ q <= q
        BY <1>1, <1>5 DEF Upto
      <4> QED
        BY <4>4, <4>6, <4>7, <4>8 DEF InStep, q
    <3>3. CASE q % Wrap = Previous
      <4>1. D \in Nat /\ q \in Nat /\ D <= q /\ q < D + Wrap /\ q % Wrap = D % Wrap
        BY <1>1, <3>1, <3>3 DEF Previous
      <4> HIDE DEF q, D
      <4>2. q = D
        BY <4>1, SameBlock
      <4>3. device' = "data" /\ stored' = stored
        BY <1>5, <2>1, <2>4, <3>3, HearsBlock
      <4>4. Upto(q) = q /\ q <= q + damaged /\ q <= q /\ q <= Blocks
        BY <1>1, <1>5 DEF Upto
      <4>5. Len(stored') = q
        BY <4>2, <4>3 DEF D
      <4> QED
        BY <1>1, <4>3, <4>4, <4>5 DEF InStep, q
    <3>4. CASE q % Wrap # Expected /\ q % Wrap # Previous
      <4>1. device' = "menu" /\ stored' = stored
        BY <1>5, <2>1, <2>4, <3>4, HearsBlock
      <4> QED
        BY <1>3, <4>1
    <3> QED
      BY <3>2, <3>3, <3>4
  <2> QED
    BY <2>2, <2>3, <2>4 DEF YmodemTypes
<1>6. CASE q = Blocks + 1
  <2>1. m = Byte("EOT") /\ "EOT" \in Keys /\ Byte("EOT").kind = "EOT"
    BY <1>1, <1>6, AtPlace, OtherFields DEF Keys
  <2>2. CASE device \in {"menu", "pressed", "running"}
    BY <1>3, <2>1, <2>2, HearsInMenu
  <2>3. CASE device \in {"name", "data", "null"}
    <3>1. stored' = stored /\ device' # "data"
      BY <2>1, <2>3, HearsKey
    <3> QED
      BY <1>3, <3>1
  <2> QED
    BY <2>2, <2>3 DEF YmodemTypes
<1>7. CASE q = Blocks + 2
  <2>1. m = Null /\ Null.kind = "null"
    BY <1>1, <1>7, AtPlace, OtherFields
  <2>2. CASE device \in {"menu", "pressed", "running"}
    BY <1>3, <2>1, <2>2, HearsInMenu
  <2>3. CASE device \in {"name", "null"}
    BY <1>3, <2>1, <2>3, HearsNull
  <2>4. CASE device = "data"
    <3>1. D \in 0 .. Blocks /\ Blocks + 1 <= D + damaged
      BY <1>1, <1>2, <1>7, <2>4 DEF Upto
    <3>2. Expected # 0
      BY <1>1, <3>1, NullApart DEF Few, Expected
    <3>3. stored' = stored /\ device' \in {"data", "menu"}
      BY <2>1, <2>4, <3>2, HearsNull
    <3> QED
      BY <1>1, <1>7, <3>1, <3>3 DEF InStep, Upto
  <2> QED
    BY <2>2, <2>3, <2>4 DEF YmodemTypes
<1>8. CASE q = Blocks + 3
  <2>1. m = Byte("run") /\ "run" \in Keys /\ Byte("run").kind = "run"
    BY <1>1, <1>8, AtPlace, OtherFields DEF Keys
  <2>2. CASE device \in {"menu", "pressed", "running"}
    BY <1>3, <2>1, <2>2, HearsInMenu
  <2>3. CASE device \in {"name", "data", "null"}
    <3>1. stored' = stored /\ device' = device
      BY <2>1, <2>3, HearsKey
    <3> QED
      BY <1>1, <1>2, <1>8, <3>1 DEF InStep, Upto
  <2> QED
    BY <2>2, <2>3 DEF YmodemTypes
<1> QED
  BY <1>1, <1>4, <1>5, <1>6, <1>7, <1>8

\* Keys and damaged packets change nothing about the blocks.
LEMMA InStepJunk ==
  ASSUME YmodemTypes, Device, NEW e, NEW k, InStep(e, device, stored, k), Head(toDevice) \in Junk
  PROVE  InStep(e, device', stored', k)
<1>1. stored' = stored /\ (device' = "data" => device = "data")
  BY HearsJunk DEF YmodemTypes
<1> QED
  BY <1>1 DEF InStep

\* Everything between the device and a sender at place p: keys and damaged
\* packets, with packets 0 among them before any of the file has arrived, and
\* then packets without a gap.
Heads(u, e) == Only(u, Junk) \/ (e = 0 /\ Only(u, Openers))
Along(p, s, dev, sto, k) ==
  \E u, v \in Seq(Messages), e \in 0 .. Blocks + 3 :
    s = u \o v /\ Heads(u, e) /\ InStep(e, dev, sto, k) /\ Chain(v, e, p)
\* The same for an attempt that is over, with keys behind it.
Left(s, dev, sto, k) ==
  \E t, w \in Seq(Messages), p \in Nat :
    s = t \o w /\ Only(w, Junk) /\ Along(p, t, dev, sto, k)

LEMMA AlongDevice ==
  ASSUME YmodemTypes, Few, Device, NEW s \in Seq(Messages), s # <<>>, Head(s) = Head(toDevice),
         NEW p, Along(p, s, device, stored, damaged)
  PROVE  Along(p, Tail(s), device', stored', damaged)
<1>1. PICK u \in Seq(Messages), v \in Seq(Messages), e \in 0 .. Blocks + 3 :
        s = u \o v /\ Heads(u, e) /\ InStep(e, device, stored, damaged) /\ Chain(v, e, p)
  BY DEF Along
<1>2. e \in Nat
  BY Numbers
<1>3. CASE u = <<>>
  <2>1. s = v
    BY <1>1, <1>3, ConcatEmptySeq
  <2> DEFINE q == Pos(Head(toDevice))
  <2>2. q \in {e, e + 1} /\ q \in 0 .. Blocks + 3 /\ Chain(Tail(s), q, p)
    BY <1>1, <1>2, <2>1, ChainTail
  <2>3. InStep(q, device', stored', damaged)
    BY <1>1, <1>2, <2>2, InStepDevice
  <2> HIDE DEF q
  <2>4. Tail(s) \in Seq(Messages) /\ <<>> \in Seq(Messages) /\ Tail(s) = <<>> \o Tail(s)
    BY TailOf, ConcatEmptySeq
  <2>5. Heads(<<>>, q)
    BY OnlyEmpty DEF Heads
  <2> QED
    BY <2>2, <2>3, <2>4, <2>5 DEF Along
<1>4. CASE u # <<>>
  <2>1. Head(u) = Head(toDevice) /\ Tail(s) = Tail(u) \o v /\ Tail(u) \in Seq(Messages)
    BY <1>1, <1>4, HeadTailConcat, TailOf
  <2>2. Heads(Tail(u), e)
    BY <1>1, <1>4, OnlyTail DEF Heads
  <2>3. InStep(e, device', stored', damaged)
    <3>1. Head(u) \in Junk \/ (e = 0 /\ Head(u) \in Openers)
      BY <1>1, <1>4, OnlyTail DEF Heads
    <3>2. CASE Head(toDevice) \in Junk
      BY <1>1, <3>2, InStepJunk
    <3>3. CASE e = 0 /\ Head(toDevice) = Name
      <4>1. Pos(Head(toDevice)) = 0 /\ 0 \in 0 .. Blocks + 3
        BY <3>3, Places, Numbers
      <4> QED
        BY <1>1, <1>2, <3>3, <4>1, InStepDevice
    <3> QED
      BY <2>1, <3>1, <3>2, <3>3 DEF Openers
  <2> QED
    BY <1>1, <2>1, <2>2, <2>3 DEF Along
<1> QED
  BY <1>3, <1>4

LEMMA LeftDevice ==
  ASSUME YmodemTypes, Few, Device, Left(toDevice, device, stored, damaged)
  PROVE  Left(toDevice', device', stored', damaged)
<1>0. toDevice # <<>> /\ toDevice' = Tail(toDevice) /\ toDevice \in Seq(Messages)
  BY DeviceFrame DEF YmodemTypes
<1>1. PICK t \in Seq(Messages), w \in Seq(Messages), p \in Nat :
        toDevice = t \o w /\ Only(w, Junk) /\ Along(p, t, device, stored, damaged)
  BY DEF Left
<1>2. CASE t # <<>>
  <2>1. Head(toDevice) = Head(t) /\ Tail(toDevice) = Tail(t) \o w /\ Tail(t) \in Seq(Messages)
    BY <1>1, <1>2, HeadTailConcat, TailOf
  <2>2. Along(p, Tail(t), device', stored', damaged)
    BY <1>1, <1>2, <2>1, AlongDevice
  <2> QED
    BY <1>0, <1>1, <2>1, <2>2 DEF Left
<1>3. CASE t = <<>>
  <2>1. toDevice = w
    BY <1>1, <1>3, ConcatEmptySeq
  <2>2. Head(toDevice) \in Junk /\ Only(Tail(toDevice), Junk) /\ Tail(toDevice) \in Seq(Messages)
    BY <1>0, <1>1, <2>1, OnlyTail, TailOf
  <2>3. PICK u \in Seq(Messages), v \in Seq(Messages), e \in 0 .. Blocks + 3 :
          t = u \o v /\ Heads(u, e) /\ InStep(e, device, stored, damaged) /\ Chain(v, e, p)
    BY <1>1 DEF Along
  <2>4. InStep(e, device', stored', damaged)
    BY <2>2, <2>3, InStepJunk
  <2>5. Along(p, t, device', stored', damaged)
    BY <2>3, <2>4 DEF Along
  <2>6. Tail(toDevice) = t \o Tail(toDevice)
    BY <1>3, <2>2, ConcatEmptySeq
  <2> QED
    BY <1>0, <1>1, <2>2, <2>5, <2>6 DEF Left
<1> QED
  BY <1>2, <1>3

\* The device forgets what it waits for.
LEMMA LeftMenu ==
  ASSUME NEW s, NEW dev, NEW sto, NEW k, Left(s, dev, sto, k)
  PROVE  Left(s, "menu", sto, k)
<1>1. \A e : InStep(e, dev, sto, k) => InStep(e, "menu", sto, k)
  BY DEF InStep
<1>2. \A t, p : Along(p, t, dev, sto, k) => Along(p, t, "menu", sto, k)
  BY <1>1 DEF Along
<1> QED
  BY <1>2 DEF Left

\* The sender sends the packet of its place again, or the next one.
LEMMA AlongSend ==
  ASSUME NEW s \in Seq(Messages), NEW p \in Nat, NEW dev, NEW sto, NEW k,
         Along(p, s, dev, sto, k),
         NEW m \in Messages, Pos(m) \in {p, p + 1}, Pos(m) \in 0 .. Blocks + 3
  PROVE  Along(Pos(m), Append(s, m), dev, sto, k)
<1>1. PICK u \in Seq(Messages), v \in Seq(Messages), e \in 0 .. Blocks + 3 :
        s = u \o v /\ Heads(u, e) /\ InStep(e, dev, sto, k) /\ Chain(v, e, p)
  BY DEF Along
<1>2. <<m>> \in Seq(Messages) /\ e \in Nat
  BY Numbers
<1>3. Append(s, m) = u \o Append(v, m)
  <2>1. Append(s, m) = (u \o v) \o <<m>> /\ Append(v, m) = v \o <<m>>
    BY <1>1, AppendIsConcat
  <2>2. (u \o v) \o <<m>> = u \o (v \o <<m>>)
    BY <1>2, ConcatAssociative
  <2> QED
    BY <2>1, <2>2
<1>4. Chain(Append(v, m), e, Pos(m)) /\ Append(v, m) \in Seq(Messages)
  BY <1>1, <1>2, ChainAppend, AppendProperties
<1> QED
  BY <1>1, <1>3, <1>4 DEF Along

\* The first packet 0 of an attempt.
LEMMA AlongStart ==
  ASSUME NEW s \in Seq(Messages), NEW dev, NEW sto \in Seq(0 .. Blocks), NEW k \in Nat,
         Only(s, Openers), dev = "data" => sto = <<>>, \A n \in 1 .. Len(sto) : sto[n] = n
  PROVE  Along(0, Append(s, Name), dev, sto, k)
<1>1. <<Name>> \in Seq(Messages) /\ <<Name>> # <<>> /\ <<Name>>[1] = Name /\ Len(<<Name>>) = 1
  BY OtherFields
<1>2. Append(s, Name) = s \o <<Name>>
  BY OtherFields, AppendIsConcat
<1>3. Chain(<<Name>>, 0, 0)
  BY <1>1, Places, Numbers DEF Chain
<1>4. InStep(0, dev, sto, k)
  <2>1. Len(<<>>) = 0 /\ Upto(0) = 0 /\ Blocks \in Nat
    BY Numbers DEF Upto
  <2> QED
    BY <2>1 DEF InStep
<1>5. Heads(s, 0) /\ 0 \in 0 .. Blocks + 3
  BY Numbers DEF Heads
<1> QED
  BY <1>1, <1>2, <1>3, <1>4, <1>5 DEF Along

LEMMA LeftAlong ==
  ASSUME NEW s \in Seq(Messages), NEW p \in Nat, NEW dev, NEW sto, NEW k,
         Along(p, s, dev, sto, k)
  PROVE  Left(s, dev, sto, k)
<1>1. s = s \o <<>> /\ <<>> \in Seq(Messages) /\ Only(<<>>, Junk)
  BY ConcatEmptySeq, OnlyEmpty
<1> QED
  BY <1>1 DEF Left

LEMMA LeftMore ==
  ASSUME NEW s, NEW dev, NEW sto, NEW k, Left(s, dev, sto, k),
         NEW x \in Junk, NEW y \in Junk
  PROVE  Left(s \o <<x, y>>, dev, sto, k)
<1>1. PICK t \in Seq(Messages), w \in Seq(Messages), p \in Nat :
        s = t \o w /\ Only(w, Junk) /\ Along(p, t, dev, sto, k)
  BY DEF Left
<1>2. x \in Messages /\ y \in Messages
  BY KeysIn DEF Junk
<1>3. <<x, y>> \in Seq(Messages)
  BY <1>2
<1>4. (t \o w) \o <<x, y>> = t \o (w \o <<x, y>>)
  BY <1>3, ConcatAssociative
<1>5. w \o <<x, y>> \in Seq(Messages)
  BY <1>3, ConcatProperties
<1>6. Only(w \o <<x, y>>, Junk)
  BY <1>1, <1>2, OnlyPair
<1> QED
  BY <1>1, <1>4, <1>5, <1>6 DEF Left

\* A packet is lost or damaged: one place more may be missing.
LEMMA InStepLess ==
  ASSUME NEW e \in 0 .. Blocks + 3, NEW q \in 0 .. Blocks + 3, q \in {e, e + 1},
         NEW dev, NEW sto \in Seq(0 .. Blocks), NEW k \in Nat, InStep(e, dev, sto, k)
  PROVE  InStep(q, dev, sto, k + 1)
<1> USE Numbers
<1>1. Len(sto) \in Nat
  BY LenProperties
<1>2. Upto(q) <= Upto(e) + 1 /\ Upto(q) \in Nat /\ Upto(e) \in Nat
  BY DEF Upto
<1>3. ASSUME dev = "data"
      PROVE  Len(sto) <= Blocks /\ Len(sto) <= q /\ Upto(q) <= Len(sto) + (k + 1)
  <2>1. Len(sto) <= Blocks /\ Len(sto) <= e /\ Upto(e) <= Len(sto) + k
    BY <1>3 DEF InStep
  <2> QED
    BY <1>1, <1>2, <2>1
<1> QED
  BY <1>3 DEF InStep

\* Sequences in a row may be grouped either way.
LEMMA Regroup ==
  \A x, y, z \in Seq(Messages) : (x \o y) \o z = x \o (y \o z)
BY ConcatAssociative

LEMMA AlongDamage ==
  ASSUME NEW s \in Seq(Messages), s # <<>>, NEW p, NEW dev, NEW sto \in Seq(0 .. Blocks),
         NEW k \in Nat, Along(p, s, dev, sto, k),
         NEW t, t = Tail(s) \/ t = <<Byte("bad")>> \o Tail(s)
  PROVE  Along(p, t, dev, sto, k + 1) /\ t \in Seq(Messages)
<1>1. PICK u \in Seq(Messages), v \in Seq(Messages), e \in 0 .. Blocks + 3 :
        s = u \o v /\ Heads(u, e) /\ InStep(e, dev, sto, k) /\ Chain(v, e, p)
  BY DEF Along
<1>2. /\ e \in Nat /\ Byte("bad") \in Messages /\ Byte("bad") \in Junk /\ Byte("bad") \in Openers
      /\ <<Byte("bad")>> \in Seq(Messages) /\ <<>> \in Seq(Messages)
  BY Numbers, KeysIn DEF Junk, Openers
<1>3. t \in Seq(Messages)
  <2> DEFINE c == <<Byte("bad")>>
  <2>1. c \in Seq(Messages) /\ Tail(s) \in Seq(Messages)
    BY <1>2, TailOf
  <2>2. t = Tail(s) \/ t = c \o Tail(s)
    OBVIOUS
  <2> HIDE DEF c
  <2> QED
    BY <2>1, <2>2, ConcatProperties
\* The keys in front are as before, or one of them is now damaged.
<1>4. ASSUME NEW a \in Seq(Messages), NEW q \in 0 .. Blocks + 3, NEW b \in Seq(Messages),
             Tail(s) = a \o b, Heads(a, q), InStep(q, dev, sto, k + 1), Chain(b, q, p)
      PROVE  Along(p, t, dev, sto, k + 1)
  <2>1. CASE t = Tail(s)
    BY <1>4, <2>1 DEF Along
  <2>2. CASE t = <<Byte("bad")>> \o Tail(s)
    <3>1. t = (<<Byte("bad")>> \o a) \o b
      <4> DEFINE c == <<Byte("bad")>>
      <4>1. c \in Seq(Messages) /\ t = c \o (a \o b)
        BY <1>2, <1>4, <2>2
      <4> HIDE DEF c
      <4>a. c \in Seq(Messages) /\ a \in Seq(Messages) /\ b \in Seq(Messages)
        BY <4>1
      <4>2. (c \o a) \o b = c \o (a \o b)
        BY <4>a, Regroup
      <4> QED
        BY <4>1, <4>2 DEF c
    <3>2. <<Byte("bad")>> \o a \in Seq(Messages)
      BY <1>2, ConcatProperties
    <3>3. Heads(<<Byte("bad")>> \o a, q)
      <4>1. Only(a, Junk) => Only(<<Byte("bad")>> \o a, Junk)
        BY <1>2, OnlyCons
      <4>2. Only(a, Openers) => Only(<<Byte("bad")>> \o a, Openers)
        BY <1>2, OnlyCons
      <4> QED
        BY <1>4, <4>1, <4>2 DEF Heads
    <3> QED
      BY <1>4, <3>1, <3>2, <3>3 DEF Along
  <2> QED
    BY <2>1, <2>2
<1>5. CASE u = <<>>
  <2>1. s = v
    BY <1>1, <1>5, ConcatEmptySeq
  <2> DEFINE q == Pos(Head(s))
  <2>2. q \in {e, e + 1} /\ q \in 0 .. Blocks + 3 /\ Chain(Tail(s), q, p)
    BY <1>1, <1>2, <2>1, ChainTail
  <2> HIDE DEF q
  <2>3. InStep(q, dev, sto, k + 1)
    BY <1>1, <2>2, InStepLess
  <2>4. Tail(s) \in Seq(Messages) /\ Tail(s) = <<>> \o Tail(s) /\ Heads(<<>>, q)
    BY TailOf, ConcatEmptySeq, OnlyEmpty DEF Heads
  <2> QED
    BY <1>2, <1>3, <1>4, <2>2, <2>3, <2>4
<1>6. CASE u # <<>>
  <2>1. Tail(s) = Tail(u) \o v /\ Tail(u) \in Seq(Messages)
    BY <1>1, <1>6, HeadTailConcat, TailOf
  <2>2. Heads(Tail(u), e)
    BY <1>1, <1>6, OnlyTail DEF Heads
  <2>3. InStep(e, dev, sto, k + 1)
    BY <1>1, InStepLess
  <2> QED
    BY <1>1, <1>3, <1>4, <2>1, <2>2, <2>3
<1> QED
  BY <1>3, <1>5, <1>6

LEMMA LeftDamage ==
  ASSUME NEW s \in Seq(Messages), s # <<>>, NEW dev, NEW sto \in Seq(0 .. Blocks),
         NEW k \in Nat, Left(s, dev, sto, k),
         NEW t, t = Tail(s) \/ t = <<Byte("bad")>> \o Tail(s)
  PROVE  Left(t, dev, sto, k + 1)
<1>1. PICK a \in Seq(Messages), w \in Seq(Messages), p \in Nat :
        s = a \o w /\ Only(w, Junk) /\ Along(p, a, dev, sto, k)
  BY DEF Left
<1>2. Byte("bad") \in Messages /\ Byte("bad") \in Junk /\ <<Byte("bad")>> \in Seq(Messages)
  BY KeysIn DEF Junk
<1>3. CASE a # <<>>
  <2>1. Tail(s) = Tail(a) \o w /\ Tail(a) \in Seq(Messages)
    BY <1>1, <1>3, HeadTailConcat, TailOf
  <2>2. CASE t = Tail(s)
    <3>1. Along(p, Tail(a), dev, sto, k + 1)
      BY <1>1, <1>3, AlongDamage
    <3> QED
      BY <1>1, <2>1, <2>2, <3>1 DEF Left
  <2>3. CASE t = <<Byte("bad")>> \o Tail(s)
    <3>1. t = (<<Byte("bad")>> \o Tail(a)) \o w
      <4> DEFINE c == <<Byte("bad")>>
      <4>1. c \in Seq(Messages) /\ t = c \o (Tail(a) \o w)
        BY <1>2, <2>1, <2>3
      <4> HIDE DEF c
      <4>a. c \in Seq(Messages) /\ Tail(a) \in Seq(Messages) /\ w \in Seq(Messages)
        BY <2>1, <4>1
      <4>2. (c \o Tail(a)) \o w = c \o (Tail(a) \o w)
        BY <4>a, Regroup
      <4> QED
        BY <4>1, <4>2 DEF c
    <3>2. /\ Along(p, <<Byte("bad")>> \o Tail(a), dev, sto, k + 1)
          /\ <<Byte("bad")>> \o Tail(a) \in Seq(Messages)
      BY <1>1, <1>3, AlongDamage
    <3> QED
      BY <1>1, <3>1, <3>2 DEF Left
  <2> QED
    BY <2>2, <2>3
<1>4. CASE a = <<>>
  <2>1. s = w
    BY <1>1, <1>4, ConcatEmptySeq
  <2>2. Only(t, Junk) /\ t \in Seq(Messages)
    <3>1. Only(Tail(s), Junk) /\ Tail(s) \in Seq(Messages)
      BY <1>1, <2>1, OnlyTail, TailOf
    <3> QED
      BY <1>2, <3>1, OnlyCons, ConcatProperties
  <2>3. Along(p, a, dev, sto, k + 1)
    <3>1. PICK u \in Seq(Messages), v \in Seq(Messages), e \in 0 .. Blocks + 3 :
            a = u \o v /\ Heads(u, e) /\ InStep(e, dev, sto, k) /\ Chain(v, e, p)
      BY <1>1 DEF Along
    <3>2. InStep(e, dev, sto, k + 1)
      BY <3>1, InStepLess
    <3> QED
      BY <3>1, <3>2 DEF Along
  <2>4. t = a \o t
    BY <1>4, <2>2, ConcatEmptySeq
  <2> QED
    BY <1>1, <2>2, <2>3, <2>4 DEF Left
<1> QED
  BY <1>3, <1>4

-----------------------------------------------------------------------------
AlongInv ==
  Few => /\ Left(toDevice, device, stored, damaged)
         /\ Active => Along(Place, toDevice, device, stored, damaged)

\* The blocks in the flash are the file's, whatever is still under way.
LEMMA LeftInOrder ==
  ASSUME NEW s, NEW dev, NEW sto, NEW k, Left(s, dev, sto, k)
  PROVE  \A n \in 1 .. Len(sto) : sto[n] = n
BY DEF Left, Along, InStep

\* Fewer faults before a step than after it.
LEMMA FewBefore ==
  ASSUME YmodemTypes, [Next]_vars
  PROVE  (Few' => Few) /\ (damaged' = damaged \/ damaged' = damaged + 1)
<1>1. damaged' = damaged \/ damaged' = damaged + 1
  <2>1. CASE Sender
    BY <2>1, Reads DEF Sender
  <2>2. CASE Start \/ Return \/ Device \/ DevicePrompt \/ GiveUp \/ Done \/ UNCHANGED vars
    BY <2>2 DEF Start, Return, Device, DevicePrompt, GiveUp, Done, vars, line
  <2>3. CASE Fault
    BY <2>3, FaultFrame
  <2> QED
    BY <2>1, <2>2, <2>3 DEF Next
<1>2. damaged \in Nat /\ (Blocks + 1) % Wrap \in Nat /\ Wrap \in Nat
  BY Numbers, Neighbours DEF YmodemTypes
<1> QED
  BY <1>1, <1>2 DEF Few

\* What the sender sends keeps what is under way without a gap.
LEMMA SenderAlong ==
  ASSUME YmodemTypes, BehindInv, Few,
         Left(toDevice, device, stored, damaged),
         Active => Along(Place, toDevice, device, stored, damaged),
         NEW ch, Getchar(ch),
         Prompt(ch) \/ NameAnswer(ch) \/ Go(ch) \/ DataAnswer(ch) \/ EotAnswer(ch)
           \/ EndGo(ch) \/ NullAnswer(ch),
         pc' \in (Steps \ {"prompt"}) \cup {"sent"}
  PROVE  Along(Place', toDevice', device, stored, damaged) /\ Place' \in Nat
<1> USE Numbers
<1>1. toDevice \in Seq(Messages) /\ damaged \in Nat /\ stored \in Seq(0 .. Blocks)
  BY DEF YmodemTypes
<1>2. CASE Prompt(ch)
  <2>1. ch = "CRC" /\ toDevice' = Append(toDevice, Name) /\ pc = "prompt" /\ pc' = "name"
    BY <1>2 DEF Prompt, SendName, Send, Fail, Steps
  <2>2. toHost # <<>> /\ Head(toHost) = "CRC"
    BY <2>1, Reads DEF TimedOut
  <2>3. Only(toDevice, Openers) /\ (device = "data" => stored = <<>>)
    BY <2>1, <2>2 DEF BehindInv
  <2>4. Place' = 0
    BY <2>1 DEF Place
  <2>5. \A n \in 1 .. Len(stored) : stored[n] = n
    BY LeftInOrder
  <2>6. Along(0, Append(toDevice, Name), device, stored, damaged)
    BY <1>1, <2>3, <2>5, AlongStart
  <2> QED
    BY <2>1, <2>4, <2>6
<1>3. CASE ~Prompt(ch)
  <2> DEFINE p == Place
  <2>1. /\ pc \in Steps \ {"prompt"} /\ p \in Nat /\ Place' \in Nat
        /\ \/ toDevice' = toDevice /\ Place' = p
           \/ \E m \in Messages : /\ toDevice' = Append(toDevice, m)
                                  /\ Pos(m) \in {p, p + 1} /\ Pos(m) \in 0 .. Blocks + 3
                                  /\ Place' = Pos(m)
    BY <1>3, SenderPlace
  <2>2. Along(p, toDevice, device, stored, damaged)
    BY <2>1 DEF Active
  <2> HIDE DEF p
  <2>3. CASE toDevice' = toDevice /\ Place' = p
    BY <2>1, <2>2, <2>3
  <2>4. ASSUME NEW m \in Messages, toDevice' = Append(toDevice, m),
               Pos(m) \in {p, p + 1}, Pos(m) \in 0 .. Blocks + 3, Place' = Pos(m)
        PROVE  Along(Place', toDevice', device, stored, damaged) /\ Place' \in Nat
    <3>1. Along(Pos(m), Append(toDevice, m), device, stored, damaged)
      BY <1>1, <2>1, <2>2, <2>4, AlongSend
    <3> QED
      BY <2>1, <2>4, <3>1
  <2> QED
    BY <2>1, <2>3, <2>4
<1> QED
  BY <1>2, <1>3

LEMMA AlongSender ==
  ASSUME YmodemTypes, BehindInv, Few, Sender,
         Left(toDevice, device, stored, damaged),
         Active => Along(Place, toDevice, device, stored, damaged)
  PROVE  /\ Left(toDevice', device', stored', damaged')
         /\ Active' => Along(Place', toDevice', device', stored', damaged')
<1>1. PICK ch \in Answers \cup {TimedOut} :
        /\ Getchar(ch)
        /\ Prompt(ch) \/ NameAnswer(ch) \/ Go(ch) \/ DataAnswer(ch) \/ EotAnswer(ch)
             \/ EndGo(ch) \/ NullAnswer(ch)
  BY DEF Sender
<1>2. /\ device' = device /\ stored' = stored /\ damaged' = damaged
      /\ toDevice \in Seq(Messages) /\ toDevice' \in Seq(Messages)
  BY <1>1, Reads, SenderTypes DEF Sender, bootloader, YmodemTypes
<1>3. pc' \in Steps \cup {"sent", "failed"} /\ (pc' = "prompt" => toDevice' = toDevice)
  BY <1>1, SenderSends
<1>4. CASE pc' \in (Steps \ {"prompt"}) \cup {"sent"}
  <2> DEFINE p == Place'
  <2>1. Along(p, toDevice', device, stored, damaged) /\ p \in Nat
    BY <1>1, <1>4, SenderAlong
  <2> HIDE DEF p
  <2>2. Left(toDevice', device, stored, damaged)
    BY <1>2, <2>1, LeftAlong
  <2> QED
    BY <1>2, <2>1, <2>2 DEF p
<1>5. CASE pc' = "failed" \/ pc' = "prompt"
  <2>1. ~Active'
    BY <1>5 DEF Active, Steps
  <2>2. \/ toDevice' = toDevice
        \/ toDevice' = toDevice \o <<Byte("CAN"), Byte("CAN")>>
    BY <1>1, <1>5 DEF Prompt, NameAnswer, Go, DataAnswer, EotAnswer, EndGo, NullAnswer,
                      Fail, SendName, Advance
  <2>3. Byte("CAN") \in Junk
    BY DEF Junk
  <2>4. Left(toDevice \o <<Byte("CAN"), Byte("CAN")>>, device, stored, damaged)
    BY <2>3, LeftMore
  <2> QED
    BY <1>2, <2>1, <2>2, <2>4
<1> QED
  BY <1>3, <1>4, <1>5

LEMMA AlongStep == YmodemTypes /\ BehindInv /\ AlongInv /\ [Next]_vars => AlongInv'
<1> SUFFICES ASSUME YmodemTypes, BehindInv, AlongInv, [Next]_vars, Few'
             PROVE  /\ Left(toDevice', device', stored', damaged')
                    /\ Active' => Along(Place', toDevice', device', stored', damaged')
  BY DEF AlongInv
<1>1. /\ Few /\ Left(toDevice, device, stored, damaged)
      /\ Active => Along(Place, toDevice, device, stored, damaged)
  BY FewBefore DEF AlongInv
<1>2. toDevice \in Seq(Messages) /\ stored \in Seq(0 .. Blocks) /\ damaged \in Nat
  BY DEF YmodemTypes
<1>3. CASE Start
  <2>1. /\ pc' = "prompt" /\ toDevice' = toDevice \o <<Byte("c"), Byte("1")>>
        /\ device' = device /\ stored' = stored /\ damaged' = damaged
    BY <1>3 DEF Start, line
  <2>2. Byte("c") \in Junk /\ Byte("1") \in Junk
    BY DEF Junk
  <2>3. Left(toDevice \o <<Byte("c"), Byte("1")>>, device, stored, damaged)
    BY <1>1, <2>2, LeftMore
  <2>4. ~Active'
    BY <2>1 DEF Active
  <2> QED
    BY <2>1, <2>3, <2>4
<1>4. CASE Sender
  BY <1>1, <1>4, AlongSender
<1>5. CASE Return
  <2>1. device' = device /\ stored' = stored /\ damaged' = damaged /\ blockno' = blockno
    BY <1>5 DEF Return, bootloader, line
  <2>2. CASE pc = "sent" /\ toDevice' = Append(toDevice, Byte("run")) /\ pc' = "done"
    <3>1. Place = Blocks + 2 /\ Place' = Blocks + 3 /\ Active
      BY <2>2 DEF Place, Active
    <3>2. Blocks + 2 \in Nat /\ Pos(Byte("run")) = Blocks + 3 /\ Byte("run") \in Messages
          /\ (Blocks + 2) + 1 = Blocks + 3 /\ Blocks + 3 \in 0 .. Blocks + 3 /\ Blocks + 3 \in Nat
      BY Numbers, Places, KeysIn
    <3>3. Along(Blocks + 2, toDevice, device, stored, damaged)
      BY <1>1, <3>1
    <3>4. Along(Blocks + 3, toDevice', device, stored, damaged)
      BY <1>2, <2>2, <3>2, <3>3, AlongSend
    <3>5. toDevice' \in Seq(Messages)
      BY <1>2, <2>2, <3>2, AppendProperties
    <3>6. Left(toDevice', device, stored, damaged)
      BY <3>2, <3>4, <3>5, LeftAlong
    <3> QED
      BY <2>1, <3>1, <3>4, <3>6
  <2>3. CASE /\ pc = "failed" /\ toDevice' = toDevice /\ success' = FALSE
             /\ pc' = IF attempt < 2 THEN "idle" ELSE "done"
    <3>1. ~Active'
      BY <2>3 DEF Active, Steps
    <3> QED
      BY <1>1, <2>1, <2>3, <3>1
  <2> QED
    BY <1>5, <2>2, <2>3 DEF Return, Send
<1>6. CASE Device
  <2>1. /\ pc' = pc /\ blockno' = blockno /\ success' = success /\ damaged' = damaged
        /\ toDevice # <<>> /\ toDevice' = Tail(toDevice)
    BY <1>6, DeviceFrame
  <2>2. Left(toDevice', device', stored', damaged)
    BY <1>1, <1>6, LeftDevice
  <2>3. Place' = Place /\ (Active' <=> Active)
    BY <2>1 DEF Place, Active
  <2> DEFINE p == Place
  <2>4. Active => Along(p, toDevice', device', stored', damaged)
    <3> SUFFICES ASSUME Active PROVE Along(p, toDevice', device', stored', damaged)
      OBVIOUS
    <3>1. Along(p, toDevice, device, stored, damaged)
      BY <1>1
    <3> HIDE DEF p
    <3> QED
      BY <1>1, <1>2, <1>6, <2>1, <3>1, AlongDevice
  <2> QED
    BY <2>1, <2>2, <2>3, <2>4
<1>7. CASE DevicePrompt
  <2>1. /\ pc' = pc /\ blockno' = blockno /\ success' = success /\ damaged' = damaged
        /\ toDevice' = toDevice /\ device' = device /\ stored' = stored
    BY <1>7 DEF DevicePrompt, sender
  <2>2. Place' = Place /\ (Active' <=> Active)
    BY <2>1 DEF Place, Active
  <2> QED
    BY <1>1, <2>1, <2>2
<1>8. CASE GiveUp
  <2>1. /\ pc' = pc /\ blockno' = blockno /\ success' = success /\ damaged' = damaged
        /\ toDevice' = toDevice /\ device' = "menu" /\ stored' = stored
    BY <1>8 DEF GiveUp, sender, line
  <2>2. Place' = Place /\ (Active' <=> Active)
    BY <2>1 DEF Place, Active
  <2>3. Left(toDevice, "menu", stored, damaged)
    BY <1>1, LeftMenu
  <2>4. \A e : InStep(e, device, stored, damaged) => InStep(e, "menu", stored, damaged)
    BY DEF InStep
  <2>5. Active => Along(Place, toDevice, "menu", stored, damaged)
    BY <1>1, <2>4 DEF Along
  <2> QED
    BY <2>1, <2>2, <2>3, <2>5
<1>9. CASE Fault
  <2>1. /\ pc' = pc /\ blockno' = blockno /\ success' = success
        /\ device' = device /\ stored' = stored
    BY <1>9, FaultFrame
  <2>2. Place' = Place /\ (Active' <=> Active)
    BY <2>1 DEF Place, Active
  <2>3. CASE toDevice' = toDevice /\ damaged' = damaged
    BY <1>1, <2>1, <2>2, <2>3
  <2>4. CASE /\ toDevice # <<>> /\ damaged' = damaged + 1
             /\ toDevice' = Tail(toDevice) \/ toDevice' = <<Byte("bad")>> \o Tail(toDevice)
    <3>1. Left(toDevice', device, stored, damaged + 1)
      BY <1>1, <1>2, <2>4, LeftDamage
    <3>2. Active => Along(Place, toDevice', device, stored, damaged + 1)
      BY <1>1, <1>2, <2>4, AlongDamage
    <3> QED
      BY <2>1, <2>2, <2>4, <3>1, <3>2
  <2> QED
    BY <1>9, <2>3, <2>4, FaultFrame
<1>10. CASE UNCHANGED vars
  <2>1. /\ pc' = pc /\ blockno' = blockno /\ success' = success /\ damaged' = damaged
        /\ toDevice' = toDevice /\ device' = device /\ stored' = stored
    BY <1>10 DEF vars, sender, bootloader, line
  <2>2. Place' = Place /\ (Active' <=> Active)
    BY <2>1 DEF Place, Active
  <2> QED
    BY <1>1, <2>1, <2>2
<1>11. CASE Done
  BY <1>10, <1>11 DEF Done
<1> QED
  BY <1>3, <1>4, <1>5, <1>6, <1>7, <1>8, <1>9, <1>10, <1>11 DEF Next

LEMMA InitAlong == Init => AlongInv
<1> SUFFICES ASSUME Init PROVE Left(toDevice, device, stored, damaged) /\ ~Active
  BY DEF AlongInv
<1>1. /\ toDevice = <<>> /\ device = "menu" /\ stored = <<>> /\ damaged = 0 /\ ~Active
  BY DEF Init, Active, Steps
<1>2. Len(<<>>) = 0 /\ <<>> \in Seq(Messages) /\ 0 \in Nat /\ 0 \in 0 .. Blocks + 3
  BY Numbers
<1>3. <<>> \o <<>> = <<>>
  BY <1>2, ConcatEmptySeq
<1>4. InStep(0, "menu", <<>>, 0) /\ Chain(<<>>, 0, 0) /\ Heads(<<>>, 0) /\ Only(<<>>, Junk)
  BY <1>2 DEF InStep, Chain, Heads, Only
<1>5. Along(0, <<>>, "menu", <<>>, 0)
  BY <1>2, <1>3, <1>4 DEF Along
<1>6. Left(<<>>, "menu", <<>>, 0)
  BY <1>2, <1>3, <1>4, <1>5 DEF Left
<1> QED
  BY <1>1, <1>6

\* While few packets are lost or damaged, no more are missing than were lost.
THEOREM UploadMissesFew == Spec => []AlongInv
<1>1. Init => AlongInv
  BY InitAlong
<1>2. YmodemTypes /\ BehindInv /\ AlongInv /\ [Next]_vars => AlongInv'
  BY AlongStep
<1> QED
  BY <1>1, <1>2, UploadTyped, UploadBeginsClean, PTL DEF Spec

\* The blocks in the device's flash are those of the file, each at its place:
\* for a file of any length, when the sender reads no stray answer, and also when
\* it reads any number of them but few packets are lost or damaged.
THEOREM UploadInOrder == Spec => []InOrder
<1>1. YmodemTypes /\ LockInv /\ AlongInv => InOrder
  <2> SUFFICES ASSUME YmodemTypes, LockInv, AlongInv,
                      extra = 0 \/ (damaged + 1 < Wrap /\ damaged <= (Blocks + 1) % Wrap)
               PROVE  Sequential
    BY DEF InOrder
  <2>1. CASE extra = 0
    BY <2>1 DEF LockInv, Lockstep
  <2>2. CASE damaged + 1 < Wrap /\ damaged <= (Blocks + 1) % Wrap
    <3>1. Left(toDevice, device, stored, damaged)
      BY <2>2 DEF AlongInv, Few
    <3> QED
      BY <3>1, LeftInOrder DEF Sequential
  <2> QED
    BY <2>1, <2>2
<1> QED
  BY <1>1, UploadTyped, UploadInLockstep, UploadMissesFew, PTL

=============================================================================
