------------------------------- MODULE BundleMap -------------------------------
(***************************************************************************)
(* The source map of a bundle: what SourceMapGenerator::Finalize writes of *)
(* the items ModuleCompositor collected (Composition), as text             *)
(* (SourceMap), against the bundle itself.                                 *)
(***************************************************************************)
EXTENDS Composition, SourceMap

(* The text Finalize wrote. *)
mappings == FinalizeMapping(mapped)

-----------------------------------------------------------------------------
(* The place of a piece in the bundle, when lines end at the characters breaks. *)
LineFeedsBefore(i, breaks) == {j \in 1 .. i - 1 : output[j] \in breaks}
MappingOf(i, breaks) ==
  LET o == Origin[output[i]]
      before == LineFeedsBefore(i, breaks)
  IN Mapping(1 + Cardinality(before), i - 1 - Max(before \union {0}),
             o.fileId, o.line, o.column)

(* What a map of the bundle has to say: where each piece is that comes from a *)
(* file, and where it was there.                                              *)
HasOrigin(i) == output[i] \in NodeName /\ Origin[output[i]].fileId >= 0
MappingsBy(breaks) ==
  LET upTo[i \in 0 .. Len(output)] ==
        CASE i = 0 -> <<>>
          [] i # 0 /\ HasOrigin(i) -> Append(upTo[i - 1], MappingOf(i, breaks))
          [] OTHER -> upTo[i - 1]
  IN  upTo[Len(output)]

(* The lines of the source map standard, and those WriteLineEnd ended.        *)
BundleMappings == MappingsBy({NL, Inner})
WriterMappings == MappingsBy({NL})

(* No piece of a minified module comes after a line end: the module is one    *)
(* statement without an object literal.                                       *)
OneLine(code) ==
  \A i, j \in DOMAIN code : i < j /\ code[i].kind = "eol" => code[j].kind # "node"
LinesKept ==
  program.minify =>
    \A code \in {program.imports, program.exports} \union Range(program.code) : OneLine(code)

MapWritten == "mappings" \in Range(mapFile)

(* The map that DumpSourcemap leaves follows the writer: its file is whole,    *)
(* and its mappings, read back, give every piece of the bundle that comes from *)
(* a file its place and its origin, and nothing else, although another thread  *)
(* than the bundle's writer collected them and each is coded as a difference   *)
(* to the one before.  The place is by the line ends of WriteLineEnd: that is  *)
(* the bundle's place (MapIsExact) as long as no line feed is inside a string  *)
(* that was written.  Minified modules are of one statement.  The decoder the  *)
(* tests read a map with agrees, unless it misreads a sign.                    *)
MapDescribesBundle ==
  /\ MapFileWellFormed
  /\ MapWritten /\ LinesKept =>
       LET text == mappings
       IN /\ MappingsOf(text) = WriterMappings
          /\ Decode(text) = MappingsOf(text) \/ HasMisreadSign(text)

(* The source map standard's reading of the map: every piece of the bundle     *)
(* that comes from a file has its line, its column and its origin, as the      *)
(* tests of the source map expect of each mapping.                             *)
MapIsExact == MapWritten => MappingsOf(mappings) = BundleMappings

==============================================================================
