------------------------------- MODULE ModeE -------------------------------
(***************************************************************************)
(* The IEC 62056-21 mode E helpers (iec62056_21_mode_e.cpp): a client      *)
(* signs on, parses the meter's identification, selects a baud rate and    *)
(* builds the acknowledgement, after which both ends switch to that rate.  *)
(* The helpers keep nothing; the identification, the selected rate and the *)
(* output are the client's, may have served an earlier meter, and are      *)
(* passed on whatever status came with them.                               *)
(*                                                                         *)
(* A message is a sequence of characters, CR and LF standing for those     *)
(* two.  A baud rate is the number of its enumerator, as the cast in       *)
(* BaudRank makes it; any other integer is a rate that is not known.       *)
(***************************************************************************)
EXTENDS Integers, Sequences

CONSTANTS
  Messages,    \* what may be received as an identification
  Requests,    \* maximal rates a client may ask for
  LastMeter    \* the identification message of the meter served before

ASSUME ModeEAssumption == Messages \subseteq Seq(STRING) /\ Requests \subseteq Int

VARIABLES
  pc,              \* the helper the client calls next
  message,         \* the identification message given to the parser
  identification,  \* the client's Iec62056_21Identification
  requested,       \* the maximal rate the client asked for
  selected,        \* the rate SelectIec62056_21ModeEBaudRate wrote
  acked,           \* the rate given to BuildIec62056_21ModeEAck
  output,          \* the string the builders wrote
  statuses         \* what each helper returned

vars == <<pc, message, identification, requested, selected, acked, output, statuses>>

-----------------------------------------------------------------------------
(* Baud rates *)

Baud300 == 0
Baud19200 == 6

IsKnownBaudRate(rate) == rate \in Baud300..Baud19200

BaudRank(rate) == rate

\* The rates BaudRateFromCode knows, by their code.
RateOfCode ==
  [c \in {"0", "1", "2", "3", "4", "5", "6"} |->
     CASE c = "0" -> 0 [] c = "1" -> 1 [] c = "2" -> 2 [] c = "3" -> 3
       [] c = "4" -> 4 [] c = "5" -> 5 [] c = "6" -> 6]

BaudRateCode(rate) ==
  IF IsKnownBaudRate(rate) THEN <<"0", "1", "2", "3", "4", "5", "6">>[rate + 1] ELSE "?"

BaudRateValue(rate) ==
  IF IsKnownBaudRate(rate) THEN <<300, 600, 1200, 2400, 4800, 9600, 19200>>[rate + 1] ELSE 0

-----------------------------------------------------------------------------
(* The helpers, each as the status it returns and what it writes *)

NoIdentification == [raw |-> <<>>, supportsModeE |-> FALSE, maxBaudRate |-> Baud300]

\* The character at index i of input, counted from 0 as in the code.
At(input, i) == input[i + 1]

\* input.find("\\W"), where npos is the length of the input.
FindMarker(input) ==
  LET found == {i \in 0..(Len(input) - 2) : At(input, i) = "\\" /\ At(input, i + 1) = "W"}
  IN IF found = {} THEN Len(input) ELSE CHOOSE i \in found : \A j \in found : i <= j

WellFormed(input) ==
  /\ Len(input) >= 5 /\ At(input, 0) = "/"
  /\ At(input, Len(input) - 2) = "CR" /\ At(input, Len(input) - 1) = "LF"

SupportsModeE(input) ==
  LET marker == FindMarker(input)
  IN marker + 2 < Len(input) /\ At(input, marker + 2) = "2"

\* Faulty variant: the identification is not cleared first.
ParseKeeping(input, old) ==
  IF ~WellFormed(input) THEN <<"InvalidArgument", old>>
  ELSE IF At(input, 4) \notin DOMAIN RateOfCode
       THEN <<"InvalidArgument", [old EXCEPT !.raw = input]>>
  ELSE <<"Ok", [raw |-> input, supportsModeE |-> SupportsModeE(input),
                maxBaudRate |-> RateOfCode[At(input, 4)]]>>

\* ParseIec62056_21Identification.  A message that fails at its baud rate has
\* been stored as raw already.
Parse(input, old) ==
  IF ~WellFormed(input) THEN <<"InvalidArgument", NoIdentification>>
  ELSE IF At(input, 4) \notin DOMAIN RateOfCode
       THEN <<"InvalidArgument", [NoIdentification EXCEPT !.raw = input]>>
  ELSE <<"Ok", [raw |-> input, supportsModeE |-> SupportsModeE(input),
                maxBaudRate |-> RateOfCode[At(input, 4)]]>>

\* Faulty variant: the faster of the two rates is taken.
SelectFaster(id, requestedMax) ==
  IF ~id.supportsModeE \/ ~IsKnownBaudRate(requestedMax)
  THEN <<"UnsupportedFeature", Baud300>>
  ELSE <<"Ok", IF BaudRank(id.maxBaudRate) > BaudRank(requestedMax)
               THEN id.maxBaudRate ELSE requestedMax>>

\* SelectIec62056_21ModeEBaudRate.
Select(id, requestedMax) ==
  IF ~id.supportsModeE \/ ~IsKnownBaudRate(requestedMax)
  THEN <<"UnsupportedFeature", Baud300>>
  ELSE <<"Ok", IF BaudRank(id.maxBaudRate) < BaudRank(requestedMax)
               THEN id.maxBaudRate ELSE requestedMax>>

\* BuildIec62056_21ModeEAck.
ModeEAck(rate) ==
  IF ~IsKnownBaudRate(rate) THEN <<"InvalidArgument", <<>> >>
  ELSE <<"Ok", <<"ACK", "2", BaudRateCode(rate), "2", "CR", "LF">> >>

-----------------------------------------------------------------------------
(* A client *)

\* The client's variables are new, or as they were left by another meter.
Init ==
  /\ pc = "signOn"
  /\ message = <<>> /\ requested = Baud300 /\ acked = Baud300
  /\ \/ identification = NoIdentification
     \/ identification = Parse(LastMeter, NoIdentification)[2]
  /\ selected = identification.maxBaudRate
  /\ output = <<>>
  /\ statuses = <<>>

BuildSignOnRequest ==
  /\ pc = "signOn"
  /\ output' = <<"/", "?", "!", "CR", "LF">>
  /\ statuses' = <<"Ok">>
  /\ pc' = "parse"
  /\ UNCHANGED <<message, identification, requested, selected, acked>>

ParseIdentification ==
  /\ pc = "parse"
  /\ \E m \in Messages :
       LET result == Parse(m, identification)
       IN /\ message' = m
          /\ identification' = result[2]
          /\ statuses' = Append(statuses, result[1])
  /\ pc' = "select"
  /\ UNCHANGED <<requested, selected, acked, output>>

SelectModeEBaudRate ==
  /\ pc = "select"
  /\ \E max \in Requests :
       LET result == Select(identification, max)
       IN /\ requested' = max
          /\ selected' = result[2]
          /\ statuses' = Append(statuses, result[1])
  /\ pc' = "ack"
  /\ UNCHANGED <<message, identification, acked, output>>

\* The client acknowledges with the selected rate, or with its own idea of one.
BuildModeEAck ==
  /\ pc = "ack"
  /\ \E rate \in {selected, requested} :
       LET result == ModeEAck(rate)
       IN /\ acked' = rate
          /\ output' = result[2]
          /\ statuses' = Append(statuses, result[1])
  /\ pc' = "done"
  /\ UNCHANGED <<message, identification, requested, selected>>

Next == BuildSignOnRequest \/ ParseIdentification \/ SelectModeEBaudRate \/ BuildModeEAck

Spec == Init /\ [][Next]_vars

-----------------------------------------------------------------------------
(* The meter's side of the exchange *)

Digits == <<"0", "1", "2", "3", "4", "5", "6">>

CodeChars == {Digits[i] : i \in 1..7}

\* 300 baud, doubled k times.
Doubled[k \in 0..6] == IF k = 0 THEN 300 ELSE 2 * Doubled[k - 1]

\* The speed a meter means by, and switches to on, code c: 300 baud doubled as
\* often as the digit says.
MeterSpeed(c) == Doubled[CHOOSE k \in 0..6 : Digits[k + 1] = c]

\* An identification: '/', three characters of a manufacturer, the code of the
\* fastest speed, the rest, CR LF.
IsIdentification(m) ==
  /\ Len(m) >= 7
  /\ Head(m) = "/" /\ m[5] \in CodeChars
  /\ SubSeq(m, Len(m) - 1, Len(m)) = <<"CR", "LF">>

\* The first escape sequence \W of the message says that the meter speaks mode E.
OffersModeE(m) ==
  \E i \in 1..(Len(m) - 2) :
    /\ SubSeq(m, i, i + 2) = <<"\\", "W", "2">>
    /\ \A j \in 1..(i - 1) : SubSeq(m, j, j + 1) # <<"\\", "W">>

-----------------------------------------------------------------------------
(* Properties *)

\* After ParseIec62056_21Identification the client's identification is that of
\* this message and of no meter served before: it accepts exactly the
\* identifications, and of a message it refuses, nothing says mode E.
IdentificationIsMeters ==
  Len(statuses) >= 2 =>
    /\ statuses[2] = IF IsIdentification(message) THEN "Ok" ELSE "InvalidArgument"
    /\ identification.supportsModeE <=> IsIdentification(message) /\ OffersModeE(message)
    /\ IsIdentification(message) =>
         BaudRateValue(identification.maxBaudRate) = MeterSpeed(message[5])

\* The chain of the helpers: the acknowledgement makes the meter switch to the
\* speed the client's port is set to, and a rate that was selected with Ok
\* belongs to a meter that offered mode E and exceeds neither what the meter can
\* do nor what the client asked for.
SpeedsAgree ==
  Len(statuses) = 4 =>
    /\ statuses[4] = "Ok" => BaudRateValue(acked) = MeterSpeed(output[3])
    /\ statuses[3] = "Ok" =>
         /\ IsIdentification(message) /\ OffersModeE(message)
         /\ BaudRateValue(selected) <= MeterSpeed(message[5])
         /\ BaudRateValue(selected) <= BaudRateValue(requested)
         /\ BaudRateValue(selected) > 0
=============================================================================
