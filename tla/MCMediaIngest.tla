---------------------------- MODULE MCMediaIngest ----------------------------
(***************************************************************************)
(* Small instances of MediaIngest for TLC: captions have one segment,      *)
(* speech recognition finds two.  Two jobs of one URL, or of one file, or  *)
(* of a file and a URL, are of one content, with sound, picture or both.   *)
(***************************************************************************)
EXTENDS MediaIngest, TLC

CONSTANTS a, b

MCOutputs == {"probe", "mezzanine", "audio"}
MCSegments == [captions |-> 1, asr |-> 2]

Of(kind, parts, x, y) == [content |-> kind, streams |-> parts, source |-> a :> x @@ b :> y]
Pairs == {Of("media", Media, "url", "url"),
          Of("media", {"audio"}, "file", "captioned url"),
          Of("media", {"mezzanine"}, "url", "captioned url"),
          Of("document", {}, "file", "file"), Of("document", {}, "file", "url")}
Single == {[content |-> "media", streams |-> Media, source |-> [j \in Jobs |-> "file"]]}
=============================================================================
