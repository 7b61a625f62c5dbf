--------------------------- MODULE MCTokenScanner --------------------------
(***************************************************************************)
(* Documents for TLC, each with one case that a cut could disturb, and the *)
(* ways to read them.                                                      *)
(***************************************************************************)
EXTENDS TokenReference, TLC

Units(s) == [i \in 1..Len(s) |-> SubSeq(s, i, i)]
In(s) == [text |-> Units(s), limit |-> 60, attributes |-> 2, room |-> 2,
          deferral |-> FALSE, adapter |-> FALSE, plans |-> TRUE]
Limited(s, limit) == [In(s) EXCEPT !.limit = limit]
Deferred(i) == [i EXCEPT !.deferral = TRUE]
ForC(i)     == [i EXCEPT !.adapter = TRUE]
Unplanned(i) == [i EXCEPT !.plans = FALSE]
Cold(i)     == [i EXCEPT !.room = 0]

(* Start tags: white space, values that are literal or not, all errors.    *)
Tags ==
    {In(s) : s \in {"<a b='x' c=\"1\"/>", "<a b = 'x$' >$</a>", "<aE~ b='E~'  >x</aE~>",
                    "<aE~b>x</aE~b>", "<a b='x'c='y'/>", "<a b='<'/>", "<a b>", "<a b=c>", "<a ='x'/>", "<a1/ >",
                    "<a b='&c;'/>", "<a b='>\"'$/>", "<a b='c' d='' e=''/>", "<a b='^'/>",
                    "<1/>", "<a/><b/>", "<a b='x", "<a b='&' c='^'/>", "<a $/>"}}
(* End tags, and what is inside the root.                                  *)
Contents ==
    {In(s) : s \in {"<a></b>", "<a><b></b ></a@$>", "<a></a b>", "<a></a^>", "</a>", "<a></a",
                    "<a>x]]>y</a>", "<a>x$y]]>z</a>", "<a>x^y</a>", "<a>x]]</a>",
                    "<a>xx$xx$xxx$<b/></a>", "<a>x@$y@</a>@$", "<a>&b1;&#x2a;&lt;</a>",
                    "<a>&#1;</a>", "<a>&#x;</a>", "<a>&;</a>", "<a>&b=</a>", "&lt;", "<a>&lt"}}
(* Comments, instructions and the prolog.                                  *)
Prologs ==
    {In(s) : s \in {"<!--a-b--><a/><!--->-->", "<!--a--b--><a/>", "<!--a---><a/>", "<!--^--><a/>",
                    "<?a b?c?><a/>", "<?1?>", "<!a>", "<!DOC", " 'a' <a/>", "$'a'x", "_ \"a^\"", "'a'",
                    "<!DOCTYPE a '>' <!--'>--> <?'>?> []><a/>", "<!DOCTYPE a <a><a/>", "<!DOCTYPE <a>",
                    "<!DOCTYPE a [<!E '%'>%b;<!--]--> ]><a/>", "<!DOCTYPE a [<!E a % b'>'%c;>]>",
                    "<!DOCTYPE a [<?a b?> ] a>", "<!DOCTYPE a['b']>", "<!DOCTYPE a[<!1", "<!DOCTYPE a[<a",
                    "<!DOCTYPE a[<!E %", "<!DOCTYPE a[%1;", "<!DOCTYPE a[<!E ^>", "'a",
                    "<!DOCTYPE a[^", "<!DOCTYPE a[<!-"}}
(* Tokens at their limit, also inside a character.                         *)
Limits ==
    {Limited("<a b='xxx'/>", n) : n \in {3, 11, 12}} \cup
    {Limited("<a b='<xx", 6), Limited("<a b='xE~'/>", 8), Limited("<a></aE~ >", 5),
     Limited("<!--xE~x-->", 6), Limited("<!--xE~x-->", 11), Limited("<a>&bbb;</a>", 4),
     Limited("<a>&bbb;</a>", 5), Limited("<a>&#48;</a>", 4), Limited("'bbb' ", 4),
     Limited("<!DOCTYPE a><a/>", 11), Limited("<!DOCTYPE a[<!E a>]>", 12),
     Limited("<!DOCTYPE a[<!E aaaaaaaa>]>", 12), Limited("<!DOCTYPE a[]             >", 12)}

MCInputs ==
    Tags \cup Contents \cup Prologs \cup Limits
    \cup {Unplanned(i) : i \in Tags} \cup {Cold(In("<a b='x' c=\"1\"/>"))}
    \cup {ForC(i) : i \in Contents} \cup {Deferred(ForC(In("<a b=''>&lt;xx<b/></a>")))}
    \cup {Deferred(i) : i \in Limits}
    \cup {Deferred(In(s)) : s \in {"<!DOCTYPE a [<!E '%'>]><a/>", "<!--aaaaaaa--><a>&b;</a>",
                                   "<a b='xxx'></a >", "<!--aaaa"}}
MCExpected == [i \in MCInputs |-> ReadFrom(Reading, i)]
=============================================================================
