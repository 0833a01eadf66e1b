---------------------------- MODULE MCToolParser ----------------------------
(* Answers with one or two calls whose first value is any short sequence of *)
(* letters, blanks, tags and look-alikes.                                   *)
EXTENDS ToolParser

Special(t) == [terminal |-> t, text |-> Tag(t)]
Plain(text) == [terminal |-> "TEXT", text |-> text]
X == <<"x", 0>>
Letter == Plain(<<X>>)
Space == Plain(<<Blank>>)
Written(t) == Plain(Tag(t))
Half(t, i) == Plain(<<<<t, i>>>>)

Key == Plain(Tag("ARG_KEY_START") \o <<X>> \o Tag("ARG_KEY_END") \o Tag("ARG_VALUE_START"))

Beginning ==
  <<Written("TOOL_START"), Special("THINK_END"), Special("TOOL_START"),
    Letter, Key>>

Pieces == {Letter, Space, Written("ARG_VALUE_END"), Written("ARG_KEY_START"), Key,
           Special("TOOL_END"), Special("TOOL_START"), Half("TOOL_END", 1), Half("TOOL_END", 2)}

Close == <<Written("ARG_VALUE_END"), Special("TOOL_END")>>

Tails ==
  {<<Special("DROP")>>,
   Close \o <<Written("TOOL_END"), Special("DROP")>>,
   Close \o <<Special("TOOL_START"), Letter, Special("TOOL_END"), Special("DROP")>>,
   <<Written("ARG_VALUE_END"),
     Plain(<<Blank>> \o Tag("ARG_KEY_START") \o <<Blank, X, X>> \o Tag("ARG_KEY_END")
             \o <<Blank>> \o Tag("ARG_VALUE_START"))>> \o Close}

MCStreams == {Beginning \o value \o tail : value \in BoundedSeq(Pieces, 2), tail \in Tails}
=============================================================================
