-------------------------------- MODULE Etag --------------------------------
(***************************************************************************)
(* pkg/etag: references to objects as text, and the lists a request holds  *)
(* them in.                                                                *)
(*                                                                         *)
(* An etag is the version, the type and the id of a row as three varints,  *)
(* written in base32 with an alphabet of nine capitals (letters 0..8) and  *)
(* twenty-three small letters, of which 23..31 are the capitals' own.  An  *)
(* id is a decimal number.  A text is a record: the letters of an etag, or *)
(* the number of an id.                                                    *)
(*                                                                         *)
(* The numbers stay below 2^31, so the narrowing to int32 and uint32 of    *)
(* ConsumeTag never bites.  Only texts that base32 can write are decoded.  *)
(***************************************************************************)
EXTENDS Integers, Sequences, SequencesExt

\* protowire.AppendVarint: seven bits a byte, the low ones first.
RECURSIVE AppendVarint(_, _)
AppendVarint(dst, n) ==
  IF n < 128 THEN Append(dst, n) ELSE AppendVarint(Append(dst, 128 + (n % 128)), n \div 128)

\* protowire.ConsumeVarint: the value and the bytes left, or <<>> if src ends first.
RECURSIVE ConsumeVarint(_)
ConsumeVarint(src) ==
  IF src = <<>> THEN <<>>
  ELSE IF Head(src) < 128 THEN <<Head(src), Tail(src)>>
  ELSE LET rest == ConsumeVarint(Tail(src))
       IN IF rest = <<>> THEN <<>> ELSE <<Head(src) - 128 + 128 * rest[1], rest[2]>>

\* base32 without padding: five bits a letter, the high ones first.
Bit(n, j) == (n \div 2^j) % 2
FromBits(bits) == FoldLeft(LAMBDA n, b : 2 * n + b, 0, bits)
Cut(bits, w) == [g \in 1..Len(bits) \div w |-> FromBits(SubSeq(bits, w * (g - 1) + 1, w * g))]
Spread(nums, w) == [j \in 1..w * Len(nums) |-> Bit(nums[(j + w - 1) \div w], (w - 1) - ((j - 1) % w))]

EncodeToString(bytes) == Cut(Spread(bytes, 8) \o [j \in 1..((-8 * Len(bytes)) % 5) |-> 0], 5)

DecodeString(letters) == Cut(Spread(letters, 5), 8)

-----------------------------------------------------------------------------
(* Tags.                                                                   *)

NoType == 0
NoVer == -1
Malformed == [err |-> TRUE, typ |-> NoType, oid |-> 0, ver |-> NoVer]
Tid(typ, oid, ver) == [err |-> FALSE, typ |-> typ, oid |-> oid, ver |-> ver]

EtagText(letters) == [etag |-> TRUE, letters |-> letters, num |-> 0]
GetId(oid) == [etag |-> FALSE, letters |-> <<>>, num |-> oid]

AppendTag(dst, typ, oid, ver) ==
  AppendVarint(AppendVarint(AppendVarint(dst, ver), typ), oid)

\* The three numbers, if they are there and nothing follows them.
ConsumeTag(src) ==
  LET v == ConsumeVarint(src)
      t == IF v = <<>> THEN <<>> ELSE ConsumeVarint(v[2])
      o == IF t = <<>> THEN <<>> ELSE ConsumeVarint(t[2])
  IN IF o = <<>> \/ (o # <<>> /\ o[2] # <<>>) THEN Malformed ELSE Tid(t[1], o[1], v[1])

EncodeEtag(typ, oid, ver) == EtagText(EncodeToString(AppendTag(<<>>, typ, oid, ver)))

\* A digit is no letter of the alphabet, so no id decodes.
DecodeTag(s) == IF s.etag THEN ConsumeTag(DecodeString(s.letters)) ELSE Malformed

\* strconv.ParseInt fails on letters; 0 stands for the failure.
GetOid(s) == IF s.etag \/ s.num < 1 THEN 0 ELSE s.num

\* A tag that decodes is of the type or an error; the rest is an id or an error.
EtagOrId(of, s) ==
  LET tag == DecodeTag(s)
  IN IF ~tag.err THEN IF tag.typ = of THEN tag ELSE Malformed
     ELSE IF GetOid(s) < 1 THEN Malformed ELSE Tid(of, GetOid(s), NoVer)

-----------------------------------------------------------------------------
(* Lists.                                                                  *)

\* strings.EqualFold: a capital letter and its small one are equal.
Fold(s) == [s EXCEPT !.letters = [j \in DOMAIN @ |-> IF @[j] <= 8 THEN @[j] + 23 ELSE @[j]]]
EqualFold(a, b) == Fold(a) = Fold(b)

MergeFields(dst, src) ==
  FoldLeft(LAMBDA d, s : IF \E j \in DOMAIN d : EqualFold(d[j], s) THEN d ELSE Append(d, s),
           dst, src)

\* FieldsFunc after its split: each argument is the sequence of the texts in it.
\* Arguments of one text each stand as they are; the first one of several texts,
\* and every argument after it, is merged.
FieldsFunc(src) ==
  LET many == {i \in DOMAIN src : Len(src[i]) > 1}
      first == CHOOSE i \in many : \A j \in many : i <= j
  IN IF many = {} THEN FlattenSeq(src)
     ELSE FoldLeft(MergeFields, FlattenSeq(SubSeq(src, 1, first - 1)),
                   SubSeq(src, first, Len(src)))

Refused == [err |-> TRUE, data |-> <<>>]

\* The tags of the list in order, refused when one is no reference or repeats an id.
InputIdOrEtag(typeOf, input) ==
  LET list == FieldsFunc(input)
      data == [r \in DOMAIN list |-> EtagOrId(typeOf, list[r])]
  IN IF \/ \E r \in DOMAIN data : data[r].err
        \/ \E r, e \in DOMAIN data : e < r /\ data[r].oid = data[e].oid
     THEN Refused
     ELSE [err |-> FALSE, data |-> data]

\* A word is any text but a reference: its one letter is none of the alphabet.
Word(n) == [etag |-> FALSE, letters |-> <<32 + n>>, num |-> 0]
Star == Word(0)
Plus == Word(1)

\* The loop of SelectFields, from index i (the first is 1) of the fields.  A
\* selector is replaced where it stands, and the index set back by what grew.
RECURSIVE Expand(_, _, _, _)
Expand(fields, i, userattrs, operational) ==
  LET rest == SubSeq(fields, i + 1, Len(fields))
      attrs == IF fields[i] = Star THEN userattrs ELSE MergeFields(operational, userattrs)
      merged == MergeFields(SubSeq(fields, 1, i - 1), MergeFields(attrs, rest))
      grown == Len(merged) - Len(fields)
  IN IF i > Len(fields) THEN fields
     ELSE IF fields[i] \notin {Star, Plus} THEN Expand(fields, i + 1, userattrs, operational)
     ELSE Expand(merged, (IF grown > 0 THEN grown ELSE i) + 1, userattrs, operational)

SelectFields(userattrs, operational, fields) ==
  IF fields = <<>> THEN userattrs ELSE Expand(fields, 1, userattrs, operational)

-----------------------------------------------------------------------------
(* The cases: requests of one or two arguments, of up to two references,   *)
(* and selectors of up to three fields.                                    *)

EtagCase == 1
EtagCaseComment == 2

\* Oids of one and two bytes, a version of two, two ids and another type.  The
\* etags of 129 and 11905 differ in the case of their letters alone.
Refs == {Tid(EtagCase, 1, 0), Tid(EtagCase, 1, 300), Tid(EtagCase, 129, 0),
         Tid(EtagCase, 11905, 0), Tid(EtagCase, 1, NoVer), Tid(EtagCase, 129, NoVer),
         Tid(EtagCaseComment, 1, 0)}
RefText(ref) == IF ref.ver = NoVer THEN GetId(ref.oid) ELSE EncodeEtag(ref.typ, ref.oid, ref.ver)

Arguments == {<<>>} \cup {<<a>> : a \in Refs} \cup {<<a, b>> : a, b \in Refs}
EtagCases == {<<a>> : a \in Arguments} \cup {<<a, b>> : a, b \in Arguments}

Texts(input) == [i \in DOMAIN input |-> [j \in DOMAIN input[i] |-> RefText(input[i][j])]]

Listed == {Word(2), Word(3), Star, Plus}
FieldCases ==
  [user : {<<>>, <<Word(2)>>, <<Word(2), Word(4)>>}, oper : {<<>>, <<Word(5)>>},
   list : UNION {[1..n -> Listed] : n \in 0..3}]

\* Two references whose texts differ only in the case of their letters: the
\* second one is left out of a list that is merged.
CaseTwins(refs) == \E a, b \in refs : a # b /\ EqualFold(RefText(a), RefText(b))

\* Every reference a request for cases lists, once, or an error, and an error only
\* if it lists something else or one object twice.
EtagInputExact(input) ==
  LET refs == UNION {ToSet(input[i]) : i \in DOMAIN input}
      out == InputIdOrEtag(EtagCase, Texts(input))
  IN CaseTwins(refs) \/
     IF out.err
     THEN \/ \E a \in refs : a.typ # EtagCase
          \/ Cardinality({a.oid : a \in refs}) < Len(FlattenSeq(input))
     ELSE /\ ToSet(out.data) = refs
          /\ \A r, e \in DOMAIN out.data : e # r => out.data[r].oid # out.data[e].oid

\* What a selector stands for, and the fields a list of them asks for.
Means(x, f) ==
  IF f = Star THEN ToSet(x.user)
  ELSE IF f = Plus THEN ToSet(x.user) \cup ToSet(x.oper) ELSE {f}
Asked(x, n) == UNION {Means(x, x.list[j]) : j \in 1..n}

\* A selector that asks for nothing that is not asked for before it: the loop
\* passes over the field that takes its place, unexpanded.
AddsNothing(x, i) == x.list[i] \in {Star, Plus} /\ Means(x, x.list[i]) \subseteq Asked(x, i - 1)

\* The fields a list asks for, each once, wherever its selectors stand.
FieldsExact(x) ==
  LET out == FieldsFunc(<<SelectFields(x.user, x.oper, x.list)>>)
  IN \/ \E i, j \in DOMAIN x.list : i < j /\ AddsNothing(x, i) /\ x.list[j] \in {Star, Plus}
     \/ /\ ToSet(out) = IF x.list = <<>> THEN ToSet(x.user) ELSE Asked(x, Len(x.list))
        /\ Len(out) = Cardinality(ToSet(out))
=============================================================================
