---------------------------- MODULE MCResolution ----------------------------
(***************************************************************************)
(* Requests for Resolution: small lexicons and rule tables, with every     *)
(* text of a few words over a vocabulary chosen for each of them.          *)
(***************************************************************************)
EXTENDS Resolution, TLC

Say(segments) == << [segments |-> segments, stress |-> "none"] >>
Item(mode, grapheme, roles, segments) ==
  [mode |-> mode, grapheme |-> grapheme, roles |-> roles, syllables |-> Say(segments)]
MCSegments == {"t", "u", "d", "e", "s", "k"}

A    == <<"a">>
To   == <<"t", "o">>
The  == <<"t", "h", "e">>
TThe == <<"T", "h", "e">>
Read == <<"r", "e", "a", "d">>
Had  == <<"h", "a", "d">>
Lead == <<"l", "e", "a", "d">>
Hop  == <<"h", "o", "p">>
Hope == <<"h", "o", "p", "e">>
Bus  == <<"b", "u", "s">>
Cat  == <<"c", "a", "t">>
Xx   == <<"x", "x">>
Xl   == <<"x", "l">>
Xz   == <<"x", "z">>
Hoping == <<"h", "o", "p", "i", "n", "g">>

BaseEntries ==
  { Item("fold", A, {"default"}, <<"e">>), Item("fold", A, {"weak"}, <<"u">>),
    Item("fold", To, {"default"}, <<"t", "u">>), Item("exact", To, {"weak"}, <<"u">>),
    Item("fold", The, {"default"}, <<"d">>), Item("exact", The, {"weak"}, <<"e">>),
    Item("fold", Read, {"default"}, <<"d", "e">>), Item("fold", Read, {"past"}, <<"d", "u">>),
    Item("fold", Had, {"default", "past"}, <<"t">>),
    Item("fold", Hop, {"default"}, <<"u">>), Item("fold", Hope, {"default"}, <<"e">>),
    Item("fold", Bus, {"default"}, <<"u", "s">>),
    Item("fold", Cat, {"default"}, <<"k", "e", "t">>) }
UserEntries ==
  { Item("exact", Read, {"default"}, <<"e", "d">>), Item("exact", Lead, {"past"}, <<"e">>),
    Item("exact", To, {"verb"}, <<"t">>) }

Base == [id |-> "L", admission |-> "product", inventory |-> "S", review |-> "R",
         entries |-> BaseEntries]
User == [present |-> TRUE, admission |-> "local-user", inventory |-> "S", review |-> "none",
         entries |-> UserEntries]
Lts  == [admission |-> "product", inventory |-> "S", lexicon |-> "L", review |-> "R",
         answer |-> Xx :> [status |-> "OK", syllables |-> Say(<<"e", "k">>)]
                 @@ Xl :> [status |-> "OK", syllables |-> Say(<<"e", "e", "e", "e">>)]
                 @@ Xz :> [status |-> "LTS_PRONUNCIATION_LIMIT", syllables |-> <<>>]
                 @@ Lead :> [status |-> "OK", syllables |-> Say(<<"d">>)]
                 @@ Hoping :> [status |-> "OK", syllables |-> Say(<<"u", "k">>)]]
Tokens == [admission |-> "product", inventory |-> "S", abi |-> "F"]

Weak == [present |-> TRUE, admission |-> "product", lexicon |-> "L", review |-> "R",
         inventory |-> "S", vowels |-> {"u", "e"},
         rules |->
           { [id |-> 1, target |-> To, role |-> "weak", caps |-> "lower",
              position |-> "any", next |-> "vowel"],
             [id |-> 2, target |-> A, role |-> "weak", caps |-> "any",
              position |-> "any", next |-> "non-vowel"],
             [id |-> 3, target |-> A, role |-> "weak", caps |-> "any",
              position |-> "final", next |-> "absent"],
             [id |-> 4, target |-> A, role |-> "weak", caps |-> "lower",
              position |-> "any", next |-> "any"],
             [id |-> 5, target |-> The, role |-> "weak", caps |-> "any",
              position |-> "medial", next |-> "any"] }]
Heteronym == [present |-> TRUE, admission |-> "product", lexicon |-> "L", review |-> "R",
              rules |->
                { [id |-> 1, target |-> Read, role |-> "past", caps |-> "any",
                   position |-> "any", conditions |-> {[offset |-> -1, words |-> {Had}]}],
                  [id |-> 2, target |-> Read, role |-> "past", caps |-> "lower",
                   position |-> "end", conditions |-> {}],
                  [id |-> 3, target |-> To, role |-> "weak", caps |-> "lower",
                   position |-> "any", conditions |-> {[offset |-> 2, words |-> {Read}]}] }]
Morph == [present |-> TRUE, admission |-> "product", lexicon |-> "L", review |-> "R",
          inventory |-> "S",
          rules |->
            [pluralSyllabic |-> {"s"}, pluralUnvoiced |-> {"t", "k"},
             pastSyllabic |-> {"t", "d"}, pastUnvoiced |-> {"s", "k"},
             suffix |-> [x \in Suffixes |-> <<"s">>]]]
NoUser == [present |-> FALSE, entries |-> {}]
None   == [present |-> FALSE]

Full == [base |-> Base, user |-> User, lts |-> Lts, tokens |-> Tokens, heteronyms |-> Heteronym,
         morphology |-> Morph, weak |-> Weak, admission |-> "product", abi |-> "F"]
MCBundles ==
  [full     |-> Full,
   noUser   |-> [Full EXCEPT !.user = NoUser],
   noStems  |-> [Full EXCEPT !.user = NoUser, !.morphology = None],
   core     |-> [Full EXCEPT !.user = NoUser, !.heteronyms = None, !.morphology = None,
                             !.weak = None],
   fixture  |-> [Full EXCEPT !.admission = "test", !.base.admission = "test",
                             !.lts.admission = "test", !.tokens.admission = "test",
                             !.heteronyms = None, !.morphology = None,
                             !.weak.admission = "test"],
   otherLts |-> [Full EXCEPT !.lts.lexicon = "other"],
   otherAbi |-> [Full EXCEPT !.tokens.abi = "other"],
   otherWeak    |-> [Full EXCEPT !.weak.lexicon = "other"],
   otherReview  |-> [Full EXCEPT !.weak.review = "other"],
   emptyBase    |-> [Full EXCEPT !.base.entries = {}],
   emptyUser    |-> [Full EXCEPT !.user.entries = {}],
   productUser  |-> [Full EXCEPT !.user.admission = "product"],
   otherSuffix  |-> [Full EXCEPT !.morphology.inventory = "other"],
   noPast   |-> [Full EXCEPT !.base.entries =
                   BaseEntries \ {Item("fold", Read, {"past"}, <<"d", "u">>)}],
   noWeak   |-> [Full EXCEPT !.base.entries =
                   BaseEntries \ {Item("exact", The, {"weak"}, <<"e">>)}]]
Misbound == {"otherLts", "otherAbi", "otherWeak", "otherReview", "productUser", "otherSuffix",
             "emptyBase", "emptyUser", "noPast", "noWeak"}

-----------------------------------------------------------------------------
Word(norm)      == [norm |-> norm, kind |-> "WORD", phone |-> <<>>]
Letter(norm)    == [norm |-> norm, kind |-> "SPELLING", phone |-> <<>>]
Phoned(norm)    == [norm |-> norm, kind |-> "WORD", phone |-> Say(<<"k">>)]
SeqsOf(S, n)    == UNION {[1..k -> S] : k \in 0..n}

\* The ways to cut n words into phrases.
Cuts(n) == {<<>>} \cup (IF n = 0 THEN {} ELSE {<< [first |-> 1, last |-> n] >>})
           \cup {<< [first |-> 1, last |-> k], [first |-> k + 1, last |-> n] >> : k \in 1..n - 1}
Texts(S, n) == UNION {{[words |-> w, phrases |-> p, roles |-> <<>>] : p \in Cuts(Len(w))} :
                        w \in SeqsOf(S, n)}
WithRoles(S, roles, n) ==
  UNION {{[words |-> w, phrases |-> <<>>, roles |-> r] : r \in SeqsOf(roles, n)} :
           w \in SeqsOf(S, n)}

Spellings3 == {<<"a">> \o s : s \in SeqsOf({"c", "k", "e", "s", "y", "i", "S"}, 3)}
Endings == { <<"s">>, <<"e", "s">>, <<"i", "e", "s">>, <<"I", "E", "S">>, <<"'", "s">>,
             <<"curly apostrophe", "s">>, <<"e", "d">>, <<"i", "e", "d">>, <<"e", "e", "d">>,
             <<"i", "n", "g">>, <<"k", "i", "n", "g">>, <<"k", "e", "d">>, <<"K", "e", "d">> }
Inflected == {[words |-> <<Word(s \o e)>>, phrases |-> <<>>, roles |-> <<>>] :
                s \in Spellings3 \cup {<<>>, <<"y">>}, e \in Endings}

MCRequests ==
  {<<"full", t>> : t \in Texts({Word(w) : w \in {A, To, The, Xx}} \cup {Phoned(A)}, 3)}
  \cup {<<"noStems", t>> :
          t \in Texts({Word(w) : w \in {A, <<"A">>, To, TThe, The, Read}}, 3)}
  \cup {<<r, t>> : r \in {"full", "noUser", "fixture", "core"},
          t \in Texts({Word(w) : w \in {Read, Had, To}} \cup {Letter(A), Letter(<<"q">>)}, 2)
                \cup Texts({Word(w) : w \in {Lead, Xl, Xz, Hoping, Hop \o <<"s">>,
                                             Cat \o <<"s">>, Bus \o <<"e", "s">>,
                                             Hope \o <<"d">>, <<"q", "1">>, Read \o <<"s">>}}, 2)
                \cup WithRoles({Word(w) : w \in {Read, Had, Lead, Read \o <<"s">>, Xx}},
                               {"", "past", "verb", "Bad"}, 2)}
  \cup {<<"core", t>> : t \in Inflected}
  \cup {<<r, [words |-> <<Word(A)>>, phrases |-> <<>>, roles |-> <<>>]>> : r \in Misbound}
MCStableRoles == {"default", "weak", "past", "verb"}
=============================================================================
