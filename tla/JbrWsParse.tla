----------------------------- MODULE JbrWsParse -----------------------------
(***************************************************************************)
(* The text-frame parser of _jbr_ws_on_message (src/src/jbr/jbr.c).        *)
(* A message is a sequence of tokens: words (tuples of one-character      *)
(* strings without whitespace) and WS, one run of whitespace.  Two words   *)
(* are always separated by WS and WS never repeats, as the code's loops    *)
(* over isspace() see them.  The parser is a pure operator, WsParse, whose *)
(* result is the operation the message is dispatched to; it is checked    *)
(* against SpecFrame, the frame grammar of the protocol, over every        *)
(* message of at most MaxWords words drawn from Words.                     *)
(***************************************************************************)
EXTENDS Integers, Sequences, SequencesExt, TLC

CONSTANTS
  Words,       \* the words messages are made of
  MaxWords,    \* the most words in a message
  MaxKeyLen,   \* JBR_MAX_KEY_LEN
  CollMax,     \* EJDB_COLLECTION_NAME_MAX_LEN
  NumBufSize,  \* JBNUMBUF_SIZE: at most NumBufSize - 1 id digits are read
  IdBits,      \* width of the int64_t iwatoi returns
  NULL

WS == <<" ">>   \* one run of whitespace, as a tuple like the words

\* The command literals compared with strncmp.
SET   == <<"s", "e", "t">>
ADD   == <<"a", "d", "d">>
DEL   == <<"d", "e", "l">>
PATCH == <<"p", "a", "t", "c", "h">>
Commands == <<[lit |-> SET, op |-> "set"], [lit |-> ADD, op |-> "add"],
              [lit |-> DEL, op |-> "del"], [lit |-> PATCH, op |-> "patch"]>>

Mutations == {"set", "add", "del", "patch"}
IdOps == {"set", "del", "patch"}

DigitValue == [d \in {"0","1","2","3","4","5","6","7","8","9"} |->
                 CHOOSE v \in 0..9 :
                   <<"0","1","2","3","4","5","6","7","8","9">>[v + 1] = d]
IsDigit(c) == c \in DOMAIN DigitValue

\* The words separated by WS, optionally with leading and trailing WS.
Join(ws) == [i \in 1..(2 * Len(ws) - 1) |->
               IF i % 2 = 1 THEN ws[(i + 1) \div 2] ELSE WS]
Messages ==
  {<<WS>>} \cup
  { (IF lead THEN <<WS>> ELSE <<>>) \o Join(ws) \o (IF trail THEN <<WS>> ELSE <<>>) :
      ws \in UNION {[1..n -> Words] : n \in 1..MaxWords},
      lead \in BOOLEAN, trail \in BOOLEAN }

Frame(op, key, coll, id, body) ==
  [op |-> op, key |-> key, coll |-> coll, id |-> id, body |-> body]
None == Frame("none", <<>>, <<>>, 0, <<>>)

-----------------------------------------------------------------------------
(* The code                                                                *)

\* for (; pos < len && isspace(data[pos]); ++pos); len -= pos; data += pos;
SkipWS(d) == IF d # <<>> /\ Head(d) = WS THEN Tail(d) ELSE d

\* Mutant: the key length bound off by one.
KeyFitsOffByOne(key) == Len(key) < MaxKeyLen

\* pos > JBR_MAX_KEY_LEN rejects the message.
KeyFits(key) == Len(key) <= MaxKeyLen

\* The chain of strncmp(literal, data, pos): the first command whose
\* literal agrees with the pos characters of the command word.  strncmp
\* stops at the literal's NUL, so a longer word never agrees.
CmdOf(cmd) ==
  LET hits == {i \in 1..Len(Commands) : IsPrefix(cmd, Commands[i].lit)}
  IN IF hits = {} THEN "none" ELSE Commands[CHOOSE i \in hits : \A j \in hits : i <= j].op

\* iwatoi over the copied digits: decimal accumulation in a signed
\* IdBits-wide integer, wrapping on overflow as the build does.
IWAtoI(ds) ==
  LET v == FoldLeft(LAMBDA acc, c : acc * 10 + DigitValue[c], 0, ds)
      w == v % (2 ^ IdBits)
  IN IF w >= 2 ^ (IdBits - 1) THEN w - 2 ^ IdBits ELSE w

\* The number of leading digits copied into nbuf, at most NumBufSize - 1.
DigitRun(w) ==
  LET n == {k \in 0..Len(w) : k <= NumBufSize - 1 /\ \A i \in 1..k : IsDigit(w[i])}
  IN CHOOSE k \in n : \A j \in n : j <= k



\* set, del, patch: copy the digit run into nbuf, skip whitespace only if
\* the run ended the word, iwatoi, reject id < 1; the rest is the body.
IdFrame(op, key, coll, d) ==
  LET w == Head(d)
      n == DigitRun(w)
      rest == IF n < Len(w) THEN <<SubSeq(w, n + 1, Len(w))>> \o Tail(d)
              ELSE SkipWS(Tail(d))
      id == IWAtoI(SubSeq(w, 1, n))
  IN IF id < 1 THEN None ELSE Frame(op, key, coll, id, rest)

\* A recognised command: skip whitespace, take the collection word, which
\* must be non-empty, at most EJDB_COLLECTION_NAME_MAX_LEN and followed by
\* more; skip whitespace; add takes the rest as its body.
CollFrame(op, key, r) ==
  LET d == SkipWS(r) IN
  IF d = <<>> THEN None
  ELSE LET coll == Head(d)
           rest == Tail(d)
       IN IF rest = <<>> \/ Len(coll) > CollMax THEN None
          ELSE LET body == SkipWS(rest) IN
               IF body = <<>> THEN None
               ELSE IF op = "add" THEN Frame("add", key, coll, 0, body)
               ELSE IdFrame(op, key, coll, body)

\* _jbr_ws_on_message from the whitespace skip on: the key must be
\* followed by more and fit keybuf; the command word is matched only when
\* whitespace follows it; anything else is a query whose text starts at
\* the command word.
WsParse(m) ==
  LET d0 == SkipWS(m) IN
  IF d0 = <<>> THEN None
  ELSE LET key == Head(d0)
           r1 == Tail(d0)
       IN IF r1 = <<>> \/ ~KeyFits(key) THEN None
          ELSE LET d1 == SkipWS(r1) IN
               IF d1 = <<>> THEN None
               ELSE LET op == IF Tail(d1) # <<>> THEN CmdOf(Head(d1)) ELSE "none"
                    IN IF op = "none" THEN Frame("query", key, <<>>, 0, d1)
                       ELSE CollFrame(op, key, Tail(d1))

-----------------------------------------------------------------------------
(* The grammar of the protocol:                                            *)
(*   frame := key WS command WS coll WS (id WS)? body?                     *)
(*   command := "set" | "add" | "del" | "patch"                            *)
(* a key of at most JBR_MAX_KEY_LEN bytes, an id decimal and >= 1, and any *)
(* other command word making the frame a query of the text after the key. *)

WordsOf(m) == SelectSeq(m, LAMBDA t : t # WS)

\* The raw text after the k-th word and the whitespace following it.
RawAfter(m, k) ==
  LET at == CHOOSE i \in DOMAIN m :
              m[i] # WS /\ Len(WordsOf(SubSeq(m, 1, i))) = k
  IN SkipWS(SubSeq(m, at + 1, Len(m)))

Keyword == [c \in {Commands[i].lit : i \in 1..Len(Commands)} |->
              (CHOOSE i \in 1..Len(Commands) : Commands[i].lit = c)]
IsDecimal(w) == Len(w) > 0 /\ \A i \in 1..Len(w) : IsDigit(w[i])
DecimalValue(w) == FoldLeft(LAMBDA acc, c : acc * 10 + DigitValue[c], 0, w)

SpecFrame(m) ==
  LET w == WordsOf(m) IN
  IF Len(w) < 2 \/ Len(w[1]) > MaxKeyLen THEN None
  ELSE IF w[2] \notin DOMAIN Keyword THEN Frame("query", w[1], <<>>, 0, RawAfter(m, 1))
  ELSE LET op == Commands[Keyword[w[2]]].op IN
       IF Len(w) < 3 \/ Len(w[3]) > CollMax THEN None
       ELSE IF op = "add"
         THEN Frame("add", w[1], w[3], 0, IF Len(w) > 3 THEN RawAfter(m, 3) ELSE <<>>)
       ELSE IF Len(w) < 4 \/ ~IsDecimal(w[4]) \/ DecimalValue(w[4]) < 1 THEN None
       ELSE Frame(op, w[1], w[3], DecimalValue(w[4]), RawAfter(m, 4))

\* Frames every reading of the grammar agrees on: the command word is a
\* keyword or no prefix of one, a keyword is followed by a collection and
\* a body or an id, and an id fits nbuf and an int64_t.
WellFormed(m) ==
  LET w == WordsOf(m) IN
  /\ Len(w) >= 2
  /\ \A i \in 1..Len(Commands) :
       IsPrefix(w[2], Commands[i].lit) => w[2] = Commands[i].lit
  /\ w[2] \in DOMAIN Keyword =>
       /\ Len(w) >= 4
       /\ Commands[Keyword[w[2]]].op # "add" =>
            /\ IsDecimal(w[4]) /\ Len(w[4]) <= NumBufSize - 1
            /\ DecimalValue(w[4]) < 2 ^ (IdBits - 1)

-----------------------------------------------------------------------------
(* One message, parsed.                                                    *)

VARIABLES msg, out

Init == msg \in Messages /\ out = NULL

Parse == out = NULL /\ out' = WsParse(msg) /\ UNCHANGED msg

Parsed == out # NULL /\ UNCHANGED <<msg, out>>

Next == Parse \/ Parsed

Spec == Init /\ [][Next]_<<msg, out>>

-----------------------------------------------------------------------------
(* Properties                                                              *)

\* On every frame the grammar reads one way only, the operation
\* _jbr_ws_on_message dispatches (kind, key, collection, id, body) is the
\* one the grammar gives, and a message the grammar rejects is dropped.
WsAgreesWithGrammar ==
  (out # NULL /\ WellFormed(msg)) => out = SpecFrame(msg)

\* A mutation is dispatched only when the command word is exactly "set",
\* "add", "del" or "patch" (the grammar's keywords), and a set, del or
\* patch carries the decimal number its id word spells, that word being
\* all digits.
WsMutationIsWhatWasSent ==
  (out # NULL /\ out.op \in Mutations) =>
    LET w == WordsOf(msg) IN
    /\ w[2] \in DOMAIN Keyword
    /\ out.op \in IdOps => IsDecimal(w[4]) /\ out.id = DecimalValue(w[4])

====
