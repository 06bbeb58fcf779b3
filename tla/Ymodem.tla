------------------------------- MODULE Ymodem -------------------------------
(***************************************************************************)
(* Uploading a firmware: the script upgrade.lua calls ymodem_send          *)
(* (ymodem/src/ymodem.c), a second time when the first call fails, and     *)
(* after a success tells the device to run what it received.  The sender   *)
(* is a chain of places where it waits for one character; what it reads    *)
(* there decides what it sends next, and it never asks which of its        *)
(* packets a character answers.                                            *)
(*                                                                         *)
(* The device is external: a receiver as the sender expects it, which      *)
(* repeats C until the file starts, answers a packet it expects, or has    *)
(* just had, with ACK, a damaged one with NAK and any other with CAN.  The *)
(* line loses and damages what either side sends.                          *)
(***************************************************************************)
EXTENDS Naturals, Sequences, SequencesExt

CONSTANTS
    Blocks,      \* number of blocks of the file
    Wrap,        \* block numbers on the line are modulo Wrap (256 in the code)
    MaxPrompts,  \* bound: how often the device sends C by itself in an attempt
    MaxFaults    \* bound: packets and characters lost, damaged, added or late

ASSUME YmodemAssumption ==
    /\ Blocks \in Nat \ {0} /\ Wrap \in Nat \ {0, 1}
    /\ MaxPrompts \in Nat /\ MaxFaults \in Nat

VARIABLES
    pc,        \* what the sender waits for; "idle" and "done" are the script's
    blockno,   \* the block being sent
    crcNak,    \* crc_nak: a C in answer to packet 0 is still forgiven
    tries,     \* timeout_count of the wait for the first C
    attempt,   \* calls of send_file so far
    success,   \* what the last ymodem_send returned
    toDevice,  \* sent, not yet received by the device
    toHost,    \* characters sent by the device, not yet read by _getchar
    device,    \* what the device waits for
    stored,    \* the blocks in the device's flash
    prompts,   \* C sent by itself in this attempt
    faults,    \* what went wrong on the line so far
    damaged,   \* packets lost or damaged among them
    extra      \* answers the sender reads that nothing it now sends has caused

sender == <<pc, blockno, crcNak, tries, attempt, success>>
bootloader == <<device, stored, prompts>>
line == <<faults, damaged, extra>>
vars == <<sender, toDevice, toHost, bootloader, line>>

Answers == {"ACK", "NAK", "CAN", "CRC", "noise"}
TimedOut == "timeout"
Steps == {"prompt", "name", "go", "data", "eot", "endgo", "null"}

\* What goes to the device: packets with the block number it sees and their
\* contents, and single bytes (keys, EOT, CAN, a damaged packet)
Block(n) == [kind |-> "block", no |-> n % Wrap, data |-> n]
Byte(k) == [kind |-> k, no |-> Wrap, data |-> 0]
Name == [kind |-> "name", no |-> 0, data |-> 0]
Null == [kind |-> "null", no |-> 0, data |-> 0]

Send(m) == toDevice' = Append(toDevice, m)
-----------------------------------------------------------------------------
(***************************************************************************)
(* The sender.                                                             *)
(***************************************************************************)
Init ==
    /\ pc = "idle" /\ blockno = 0 /\ crcNak = TRUE /\ tries = 0
    /\ attempt = 0 /\ success = FALSE
    /\ toDevice = <<>> /\ toHost = <<>>
    /\ device = "menu" /\ stored = <<>>
    /\ prompts = 0 /\ faults = 0 /\ damaged = 0 /\ extra = 0

Late == /\ faults < MaxFaults
        /\ faults' = faults + 1
        /\ extra' = extra + 1
        /\ UNCHANGED damaged

\* _getchar: the next character, or a timeout: when nothing is under way, or
\* when an answer comes later than the sender waits
Getchar(ch) ==
    \/ /\ toHost # <<>>
       /\ ch = Head(toHost)
       /\ toHost' = Tail(toHost)
       /\ UNCHANGED line
    \/ /\ toHost = <<>>
       /\ ch = TimedOut
       /\ \/ toDevice = <<>> /\ UNCHANGED line
          \/ toDevice # <<>> /\ Late
       /\ UNCHANGED toHost

\* ymodem_send or send_data_packets returns -1 with nothing sent
Fail == /\ pc' = "failed"
        /\ UNCHANGED <<blockno, crcNak, toDevice>>

SendName == /\ Send(Name)
            /\ pc' = "name"
            /\ UNCHANGED blockno

\* send_file presses c and 1 in the device's menu and calls ymodem_send, which
\* drops what it has received so far
Start ==
    /\ pc = "idle"
    /\ attempt' = attempt + 1
    /\ pc' = "prompt"
    /\ blockno' = 0 /\ crcNak' = TRUE /\ tries' = 1
    /\ toDevice' = toDevice \o <<Byte("c"), Byte("1")>>
    /\ toHost' = <<>>
    /\ prompts' = 0
    /\ UNCHANGED <<success, device, stored, line>>

\* Up to four waits of a second for the device's first C
Prompt(ch) ==
    /\ pc = "prompt"
    /\ \/ ch = "CRC" /\ SendName /\ UNCHANGED <<crcNak, tries>>
       \/ /\ ch = TimedOut /\ tries < 4
          /\ tries' = tries + 1
          /\ UNCHANGED <<pc, blockno, crcNak, toDevice>>
       \/ /\ ch # "CRC" /\ (ch = TimedOut => tries = 4)
          /\ Fail
          /\ UNCHANGED tries

\* The answer to packet 0
NameAnswer(ch) ==
    /\ pc = "name"
    /\ \/ ch = "ACK" /\ pc' = "go" /\ UNCHANGED <<blockno, crcNak, toDevice>>
       \/ ch = "CRC" /\ crcNak /\ crcNak' = FALSE /\ SendName
       \/ ch = "NAK" /\ ~crcNak /\ SendName /\ UNCHANGED crcNak
       \/ /\ ch # "ACK" /\ (ch = "CRC" => ~crcNak) /\ (ch = "NAK" => crcNak)
          /\ toDevice' = toDevice \o <<Byte("CAN"), Byte("CAN")>>
          /\ pc' = "failed"
          /\ UNCHANGED <<blockno, crcNak>>
    /\ UNCHANGED tries

\* A C asks for the data; anything else, a timeout too, repeats packet 0
Go(ch) ==
    /\ pc = "go"
    /\ IF ch = "CRC"
       THEN Send(Block(1)) /\ blockno' = 1 /\ pc' = "data"
       ELSE SendName
    /\ UNCHANGED <<crcNak, tries>>

\* The next block, or EOT after the last one
Advance == /\ blockno' = blockno + 1
           /\ IF blockno < Blocks
              THEN Send(Block(blockno + 1)) /\ UNCHANGED pc
              ELSE Send(Byte("EOT")) /\ pc' = "eot"
           /\ UNCHANGED crcNak

\* Mutant: any answer but CAN acknowledges the block
DataAnswerAny(ch) ==
    /\ pc = "data"
    /\ \/ ch \notin {"CAN", TimedOut} /\ Advance
       \/ ch \in {"CAN", TimedOut} /\ Fail
    /\ UNCHANGED tries

\* The answer to a block: ACK goes on, CAN and a timeout give up without a
\* word to the device, anything else sends the block again
DataAnswer(ch) ==
    /\ pc = "data"
    /\ \/ ch = "ACK" /\ Advance
       \/ ch \in {"CAN", TimedOut} /\ Fail
       \/ /\ ch \notin {"ACK", "CAN", TimedOut}
          /\ Send(Block(blockno))
          /\ UNCHANGED <<pc, blockno, crcNak>>
    /\ UNCHANGED tries

\* Mutant: a timeout repeats the EOT as well
EotAnswerForever(ch) ==
    /\ pc = "eot"
    /\ \/ ch = "ACK" /\ pc' = "endgo" /\ UNCHANGED <<blockno, crcNak, toDevice>>
       \/ /\ ch # "ACK"
          /\ Send(Byte("EOT"))
          /\ UNCHANGED <<pc, blockno, crcNak>>
    /\ UNCHANGED tries

\* Mutant: a second ACK is expected where the device asks with a C
EndGoAck(ch) ==
    /\ pc = "endgo"
    /\ IF ch = "ACK"
       THEN Send(Null) /\ pc' = "null" /\ UNCHANGED <<blockno, crcNak>>
       ELSE Fail
    /\ UNCHANGED tries

\* The rest of send_data_packets: an EOT until it is acknowledged, a C, and the
\* empty packet 0 until it is acknowledged
EotAnswer(ch) ==
    /\ pc = "eot"
    /\ \/ ch = "ACK" /\ pc' = "endgo" /\ UNCHANGED <<blockno, crcNak, toDevice>>
       \/ ch = TimedOut /\ Fail
       \/ /\ ch \notin {"ACK", TimedOut}
          /\ Send(Byte("EOT"))
          /\ UNCHANGED <<pc, blockno, crcNak>>
    /\ UNCHANGED tries

EndGo(ch) ==
    /\ pc = "endgo"
    /\ IF ch = "CRC"
       THEN Send(Null) /\ pc' = "null" /\ UNCHANGED <<blockno, crcNak>>
       ELSE Fail
    /\ UNCHANGED tries

NullAnswer(ch) ==
    /\ pc = "null"
    /\ \/ ch = "ACK" /\ pc' = "sent" /\ UNCHANGED <<blockno, crcNak, toDevice>>
       \/ ch = TimedOut /\ Fail
       \/ /\ ch \notin {"ACK", TimedOut}
          /\ Send(Null)
          /\ UNCHANGED <<pc, blockno, crcNak>>
    /\ UNCHANGED tries

Sender ==
    \E ch \in Answers \cup {TimedOut} :
        /\ Getchar(ch)
        /\ \/ Prompt(ch) \/ NameAnswer(ch) \/ Go(ch) \/ DataAnswer(ch)
           \/ EotAnswer(ch) \/ EndGo(ch) \/ NullAnswer(ch)
        /\ UNCHANGED <<attempt, success, bootloader>>

\* Mutant: the exit code of ymodem_send is not looked at
ReturnUnchecked ==
    /\ pc \in {"sent", "failed"}
    /\ success' = (pc = "sent")
    /\ Send(Byte("run"))
    /\ pc' = "done"
    /\ UNCHANGED <<blockno, crcNak, tries, attempt, toHost, bootloader, line>>

\* send_file returns: after a success the device is told to run the firmware
\* (key 4, or 5 for the meter interface); after a failure main tries once more
Return ==
    /\ \/ /\ pc = "sent"
          /\ success' = TRUE
          /\ Send(Byte("run"))
          /\ pc' = "done"
       \/ /\ pc = "failed"
          /\ success' = FALSE
          /\ pc' = IF attempt < 2 THEN "idle" ELSE "done"
          /\ UNCHANGED toDevice
    /\ UNCHANGED <<blockno, crcNak, tries, attempt, toHost, bootloader, line>>
-----------------------------------------------------------------------------
(***************************************************************************)
(* The device and the line (external).                                     *)
(***************************************************************************)
Expected == (Len(stored) + 1) % Wrap
Previous == Len(stored) % Wrap

\* The device stores or forgets, answers, and waits for what comes next
Answer(d, blocks, chars) ==
    /\ device' = d
    /\ stored' = blocks
    /\ toHost' = toHost \o chars

Ignore == Answer(device, stored, <<>>)

InMenu(m) ==
    /\ device \in {"menu", "pressed", "running"}
    /\ Answer(CASE device = "menu" /\ m.kind = "c" -> "pressed"
                [] device = "pressed" /\ m.kind = "1" -> "name"
                [] device = "menu" /\ m.kind = "run" -> "running"
                [] device = "running" -> "running"
                [] OTHER -> "menu", stored, <<>>)

InTransfer(m) ==
    /\ device \in {"name", "data", "null"}
    /\ CASE m.kind = "CAN" -> Answer("menu", stored, <<>>)
         [] m.kind = "bad" -> Answer(device, stored, <<"NAK">>)
         [] device = "name" /\ m = Name -> Answer("data", <<>>, <<"ACK", "CRC">>)
         [] device = "data" /\ m.no = Expected ->
                Answer("data", Append(stored, m.data), <<"ACK">>)
         [] device = "data" /\ m = Name /\ stored = <<>> ->
                Answer("data", stored, <<"ACK", "CRC">>)
         [] device = "data" /\ m.no = Previous /\ ~(m = Name /\ stored = <<>>) ->
                Answer("data", stored, <<"ACK">>)
         [] device = "data" /\ m.no \in 0..(Wrap - 1) \ {Expected, Previous} ->
                Answer("menu", stored, <<"CAN">>)
         [] device \in {"data", "null"} /\ m.kind = "EOT" ->
                Answer("null", stored, <<"ACK", "CRC">>)
         [] device = "null" /\ m = Null -> Answer("menu", stored, <<"ACK">>)
         [] OTHER -> Ignore

Device ==
    /\ toDevice # <<>>
    /\ toDevice' = Tail(toDevice)
    /\ InMenu(Head(toDevice)) \/ InTransfer(Head(toDevice))
    /\ UNCHANGED <<sender, prompts, line>>

\* The device sends C every second until the file starts
DevicePrompt ==
    /\ device = "name" /\ prompts < MaxPrompts
    /\ prompts' = prompts + 1
    /\ toHost' = Append(toHost, "CRC")
    /\ extra' = IF pc = "prompt" /\ toHost = <<>> THEN extra ELSE extra + 1
    /\ UNCHANGED <<sender, toDevice, device, stored, faults, damaged>>

\* The device drops a transfer of which it hears no more, after a silence far
\* longer than the sender leaves a character unread
GiveUp ==
    /\ device \in {"name", "data", "null", "pressed"} /\ toDevice = <<>>
    /\ pc \in {"idle", "prompt", "done"}
    /\ pc = "prompt" => toHost = <<>>
    /\ device' = "menu"
    /\ UNCHANGED <<sender, toDevice, toHost, stored, prompts, line>>

\* The line loses or damages a packet, loses or damages a character, or adds one
Fault ==
    /\ faults < MaxFaults
    /\ faults' = faults + 1
    /\ \/ /\ toDevice # <<>>
          /\ toDevice' \in {Tail(toDevice), <<Byte("bad")>> \o Tail(toDevice)}
          /\ damaged' = damaged + 1
          /\ UNCHANGED <<toHost, extra>>
       \/ /\ toHost # <<>>
          /\ toHost' \in {Front(toHost), Append(Front(toHost), "noise")}
          /\ UNCHANGED <<toDevice, damaged, extra>>
       \/ /\ toHost' = Append(toHost, "noise")
          /\ extra' = extra + 1
          /\ UNCHANGED <<toDevice, damaged>>
    /\ UNCHANGED <<sender, bootloader>>

Done == pc = "done" /\ toDevice = <<>> /\ UNCHANGED vars

Next == Start \/ Sender \/ Return \/ Device \/ DevicePrompt \/ GiveUp \/ Fault \/ Done

Spec == Init /\ [][Next]_vars
FairSpec == Spec /\ WF_vars(Start \/ Sender \/ Return) /\ WF_vars(Device)
-----------------------------------------------------------------------------
Whole == stored = [n \in 1..Blocks |-> n]

\* The device is told to run a firmware only when it has all of it.  Neither a
\* stray answer nor lost and damaged packets alone break this, in either of the
\* script's two attempts; together they do: after one answer too many every
\* ACK is taken for the packet after the one it answers, and a last block that
\* is then lost passes for acknowledged.
RunsWhole == device = "running" /\ ~(extra > 0 /\ damaged > 0) => Whole

Sequential == \A n \in 1..Len(stored) : stored[n] = n

\* The blocks in the flash are those of the file, each at its place: whatever
\* is sent again, the number of a block, modulo Wrap, tells it from its
\* neighbours.  Without a stray answer the sender is never ahead of the device.
\* After stray answers it may be, by as many packets as the line has lost: the
\* numbers still tell the blocks apart when fewer packets than Wrap - 1 are
\* lost, and too few for an EOT to be lost and the empty packet, whose number
\* is 0, to be taken for the block the device waits for.
InOrder ==
    extra = 0 \/ (damaged + 1 < Wrap /\ damaged <= (Blocks + 1) % Wrap)
        => Sequential

\* ymodem_send reports a failure once the data has begun only if the line lost,
\* damaged, delayed or added something, or a C of the device crossed packet 0
CleanUploadSucceeds == pc = "failed" /\ blockno > 0 => faults + extra > 0

\* The script comes to an end: after finitely many faults no loop of the sender
\* repeats for ever, although none of them counts its repetitions
Ends == <>(pc = "done")
=============================================================================
