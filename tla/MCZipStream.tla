----------------------------- MODULE MCZipStream -----------------------------
(* Constants of ZipStream for TLC. *)
EXTENDS ZipStream

MCEntry(name, method, outs) ==
  [name |-> name, method |-> method, encrypted |-> FALSE, descr |-> FALSE, signed |-> FALSE,
   zip64 |-> "no", extra |-> FALSE, outs |-> outs, lie |-> 0]
MCStored(name)   == MCEntry(name, "store", <<1, 1>>)
MCDeflated(outs) == MCEntry(<<"p", "f">>, "deflate", outs)
MCDescr(signed, zip64) ==
  [MCDeflated(<<2, 1>>) EXCEPT !.descr = TRUE, !.signed = signed, !.zip64 = zip64]

MCNames == {<<"p", "f">>, <<"f">>, <<"p", "">>, <<"p", "f", "">>, <<"p", "", "f">>, <<"p">>,
            <<"q", "..", "f">>, <<"", "f">>, <<"px", "f">>, <<"p", "p", "g">>}

MCZipEntries ==
  {MCStored(n) : n \in MCNames \ {<<"p", "">>, <<"p", "f", "">>}}
    \cup {MCEntry(n, "store", <<>>) : n \in {<<"p", "">>, <<"p", "f", "">>}}
    \cup {MCDeflated(outs) : outs \in {<<2, 0>>, <<1, 1>>, <<0, 3>>, <<1, 2>>, <<3, 1, 1>>}}
    \cup {MCDescr(signed, zip64) : signed \in BOOLEAN, zip64 \in {"no", "version", "sizes"}}
    \cup {[MCStored(<<"f">>) EXCEPT !.zip64 = "sizes", !.extra = x] : x \in BOOLEAN}
    \cup {[MCStored(<<"p", "f">>) EXCEPT !.encrypted = TRUE],
          [MCStored(<<"p", "f">>) EXCEPT !.method = "other"],
          [MCStored(<<"p", "f">>) EXCEPT !.lie = 1], [MCDeflated(<<1, 1>>) EXCEPT !.lie = 1],
          [MCStored(<<"p", "f">>) EXCEPT !.descr = TRUE],
          [MCStored(<<"p", "f">>) EXCEPT !.descr = TRUE, !.method = "other"]}

MCSecond == {MCStored(<<"p", "f">>), MCStored(<<"r">>), MCStored(<<"p">>), MCDescr(FALSE, "no"),
             MCEntry(<<"p", "">>, "store", <<>>)}
MCZipArchives == {<<>>} \cup {<<a>> : a \in MCZipEntries}
                \cup {<<a, b>> : a \in MCZipEntries, b \in MCSecond}
MCDeflatedArchives == {<<MCDeflated(outs)>> : outs \in {<<1>>, <<1, 2>>, <<0, 3>>, <<3, 1, 1>>}}

MCSelections == {[extract |-> x, strip |-> s] : x \in {<<>>, <<"p">>}, s \in {<<>>, <<"p">>}}
MCOldFiles == {{}, {<<"f">>}, {<<"p", "f">>}}
=============================================================================
