------------------------------ MODULE Hashtags ------------------------------
(***************************************************************************)
(* The hashtags of a caption: the topic of the input picks tags from the   *)
(* curated bank, and they fill up what the provider suggested.             *)
(*                                                                         *)
(* A tag is the sequence of its characters; those of the bank are one      *)
(* lower-case symbol each.  What differs between two tables is what they   *)
(* hold and how long they are.                                             *)
(***************************************************************************)
EXTENDS Integers, Sequences, Functions

CONSTANTS Suggestions, \* lists of tags a provider may return
          Wanted       \* counts a caller may ask for

\* Lists of words, and numbers.
ASSUME TagAssumption == Suggestions \subseteq Seq(Seq(STRING)) /\ Wanted \subseteq Int

VARIABLES ask,       \* platform, rules with a keyword in the input, count, provider's tags
          suggested, \* what Suggest returned
          merged     \* what MergeHashtags returned

tagVars == <<ask, suggested, merged>>

Numbers == <<"1", "2", "3", "4", "5", "6", "7", "8", "9">>
Table(name, n) == [i \in 1..n |-> <<name, Numbers[i]>>]

\* normalizeHashtag keeps lower-case letters and digits and nothing else: a
\* capital is dropped, not lowered.
Dropped == {"Capital", "Amharic", "Space"}
NormalizeHashtag(tag) ==
  LET kept[i \in 0..Len(tag)] ==
        IF i = 0 THEN <<>>
        ELSE IF tag[i] \in Dropped THEN kept[i - 1] ELSE Append(kept[i - 1], tag[i])
  IN  kept[Len(tag)]

Fallbacks == <<<<"kelal">>, <<"ethiopia">>, <<"smallbusiness">>, <<"madewithkelal">>,
  <<"addisababa">>, <<"ethiopianbusiness">>, <<"supportlocal">>, <<"madeinethiopia">>>>
GlobalTopics == <<<<"kelal">>, <<"ethiopia">>, <<"ethiopian">>, <<"addisababa">>, <<"madewithkelal">>>>

Sizes ==
  [instagram |-> [generic |-> 6, food |-> 9, fashion |-> 9, coffee |-> 8, tech |-> 8,
                  beauty |-> 8, travel |-> 8, art |-> 8, business |-> 5, fitness |-> 8],
   tiktok |-> [generic |-> 6, food |-> 8, fashion |-> 8, coffee |-> 7, tech |-> 7, business |-> 6],
   telegram |-> [generic |-> 4, food |-> 5, fashion |-> 4, business |-> 5]]

\* Of the topics only business shares tags with the fallbacks.
Shared == [instagram |-> <<<<"ethiopianbusiness">>, <<"smallbusiness">>, <<"supportlocal">>>>,
           tiktok |-> <<<<"smallbusiness">>>>, telegram |-> <<>>]

PlatformTopics(platform, topic) ==
  IF topic \notin DOMAIN Sizes[platform] THEN <<>>
  ELSE Table(topic, Sizes[platform][topic])
       \o (IF topic = "business" THEN Shared[platform] ELSE <<>>)

\* The first rule, in order, one of whose keywords the input contains.
Rules == <<"coffee", "food", "fashion", "beauty", "tech", "travel", "art", "fitness">>
MatchTopic(found) ==
  LET hits == SelectSeq(Rules, LAMBDA topic : topic \in found)
  IN  IF hits = <<>> THEN "business" ELSE Head(hits)

-----------------------------------------------------------------------------
(* The loops that append what is not there yet, and stop. *)

Unseen(tags, tag) == tag # <<>> /\ tag \notin Range(tags)

Added(tags, tag) == IF Unseen(tags, tag) THEN Append(tags, tag) ELSE tags

\* One that looks at the length only after it has appended.
AppendTurn(s, tag, n) ==
  IF s.stop \/ ~Unseen(s.tags, tag) THEN s
  ELSE [tags |-> Append(s.tags, tag), stop |-> Len(s.tags) + 1 >= n]

AppendNew(tags, more, n) ==
  LET after[i \in 0..Len(more)] ==
        IF i = 0 THEN [tags |-> tags, stop |-> FALSE]
        ELSE AppendTurn(after[i - 1], NormalizeHashtag(more[i]), n)
  IN  after[Len(more)].tags

\* The loop over the fallbacks, which looks at it on every turn.
TopUpTurn(s, tag, n) ==
  IF s.stop THEN s ELSE [tags |-> Added(s.tags, tag), stop |-> Len(Added(s.tags, tag)) >= n]

TopUp(tags, n) ==
  LET after[i \in 0..Len(Fallbacks)] ==
        IF i = 0 THEN [tags |-> tags, stop |-> FALSE]
        ELSE TopUpTurn(after[i - 1], Fallbacks[i], n)
  IN  after[Len(Fallbacks)].tags

Suggest(platform, topic, n) ==
  LET limit == IF n <= 0 THEN 5 ELSE IF n > 8 THEN 8 ELSE n
      candidates == PlatformTopics(platform, topic) \o GlobalTopics
                      \o PlatformTopics(platform, "generic")
  IN  TopUp(AppendNew(<<>>, candidates, limit), limit)

Limit(n) == IF n < 5 THEN 5 ELSE IF n > 8 THEN 8 ELSE n
Whole(tags) == Len(tags) + 1

\* Mutation: the bank's tags come first.
MergeHashtagsBankFirst(provider, bank, n) ==
  LET most == AppendNew(AppendNew(<<>>, bank, Whole(bank)), provider, Limit(n))
  IN  IF Len(most) < Limit(n) THEN TopUp(most, Limit(n)) ELSE most

MergeHashtags(provider, bank, n) ==
  LET own  == AppendNew(<<>>, provider, Whole(provider))
      most == AppendNew(own, bank, Limit(n))
  IN  IF Len(most) < Limit(n) THEN TopUp(most, Limit(n)) ELSE most

-----------------------------------------------------------------------------
Nothing == <<>>

\* The rules that match an input: none, one, or a few.
TagAsks ==
  [platform: DOMAIN Sizes, n: Wanted, provider: Suggestions,
   found: {{}, {"coffee", "art"}, {"food", "tech", "art"}} \cup {{Rules[i]} : i \in 1..8}]

TagInit ==
  /\ ask \in TagAsks
  /\ suggested = Nothing /\ merged = Nothing

\* GenerateText always asks the bank for 8, and merges into 8.
SuggestTags ==
  /\ suggested = Nothing
  /\ suggested' = Suggest(ask.platform, MatchTopic(ask.found), ask.n)
  /\ UNCHANGED <<ask, merged>>

MergeTags ==
  /\ suggested # Nothing /\ merged = Nothing
  /\ merged' = MergeHashtags(ask.provider, suggested, ask.n)
  /\ UNCHANGED <<ask, suggested>>

TagNext == SuggestTags \/ MergeTags

TagSpec == TagInit /\ [][TagNext]_tagVars

-----------------------------------------------------------------------------
Distinct(tags) == AppendNew(<<>>, tags, Whole(tags))

\* The bank fills a list whatever the platform and the topic, known to the
\* table or not, and without a repetition.
BankFills ==
  suggested # Nothing =>
    /\ Len(suggested) >= (IF ask.n <= 0 THEN 5 ELSE IF ask.n > 8 THEN 8 ELSE ask.n)
    /\ IsInjective(suggested) /\ <<>> \notin Range(suggested)

\* The merged list is the distinct tags of the provider, then of the bank, then
\* the fallbacks, cut off: none twice, none unusable, none of the provider's
\* lost, as many as asked for within 5 to 8, unless the provider gave as many or more:
\* then his, and one of the bank (ExactlyAsAsked).
MergedInOrder ==
  merged # Nothing =>
    LET all == Distinct(ask.provider \o suggested \o Fallbacks)
        own == Len(Distinct(ask.provider))
    IN  /\ merged = SubSeq(all, 1, Len(merged))
        /\ Len(merged) >= own /\ Len(merged) >= Limit(ask.n)
        /\ Len(merged) <= IF own < Limit(ask.n) THEN Limit(ask.n) ELSE own + 1

\* "Returns exactly n hashtags (5-8 per contract)" says the comment of
\* MergeHashtags.  The first loop has no limit, and the second tests it after an
\* append: a provider that gives n tags or more gets them all back, and one more.
ExactlyAsAsked == merged # Nothing => Len(merged) = Limit(ask.n)

TagsAsPromised == BankFills /\ MergedInOrder
=============================================================================
