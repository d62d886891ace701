-------------------------------- MODULE Fetch --------------------------------
(***************************************************************************)
(* What session_fetch makes of a page: the directory and the names its     *)
(* bundle is saved under, which assets are fetched, and the manifest that  *)
(* tells of them.  The network is the choice which assets fail; how links  *)
(* are found in HTML is left out: a page comes with its elements, each of   *)
(* them a "stylesheet" (or icon), a "script", an "img" or "other", with    *)
(* the URL it resolves to.                                                 *)
(*                                                                         *)
(* A file name is a record: [stem |-> <<"style">>, more |-> <<2>>, ext |-> *)
(* "css"] is style-2.css, ext "" is a name without a dot.  A stem is the   *)
(* sequence of its parts between the dots, as a host is of its labels.     *)
(***************************************************************************)
EXTENDS Naturals, FiniteSets, SequencesExt

CONSTANTS
  NoName,  \* the last path segment of a URL that ends with a slash
  NoUrl    \* what data:, mailto:, a fragment and the like resolve to

Plain(stem, ext) == [stem |-> stem, more |-> <<>>, ext |-> ext]

\* An allowlist entry is a host, "*" or "*.host"; the labels of "*" are none.
DomainAllowed(allowlist, host) ==
  \E pattern \in allowlist :
    IF pattern.wild THEN IsSuffix(pattern.labels, host) /\ pattern.labels /= host
                    ELSE pattern.labels = host

-----------------------------------------------------------------------------
(***************************************************************************)
(* Names.                                                                  *)
(***************************************************************************)

\* The directory is named for the segment without its extension.
Slug(name) == IF name.stem = <<>> THEN name ELSE [name EXCEPT !.ext = ""]
Downloads == Plain(<<"downloads">>, "")
BundleDir(url) ==
  <<Downloads, Plain(url.host, "")>> \o IF url.name = NoName THEN <<>> ELSE <<Slug(url.name)>>

\* report.html served as a PDF becomes report.html.pdf.
AppendExtension(name, pdf) ==
  IF ~pdf \/ name.ext = "pdf" THEN name
  ELSE [name EXCEPT !.stem = IF name.ext = "" THEN @ ELSE Append(@, name.ext), !.ext = "pdf"]
PageName(page) ==
  IF page.url.name /= NoName THEN AppendExtension(page.url.name, page.pdf)
  ELSE IF page.html THEN Plain(<<"index">>, "html") ELSE Plain(<<"download">>, "")

\* An asset whose name is taken gets the first free number from 2 behind its stem.
AssetFilename(url, used) ==
  LET raw == IF url.name = NoName THEN Plain(<<"asset">>, "") ELSE url.name
      numbered(n) == [raw EXCEPT !.more = Append(raw.more, n)]
      free == {n \in 2 .. Cardinality(used) + 2 : numbered(n) \notin used}
  IN  IF raw \notin used THEN raw ELSE numbered(CHOOSE n \in free : \A m \in free : n <= m)

\* The last segment of a URL's path, if there is one, is a file name.
NamedUrl(url) ==
  \/ url.name = NoName
  \/ url.name \in [stem : {url.name.stem}, more : Seq(Nat), ext : {url.name.ext}]

-----------------------------------------------------------------------------
(***************************************************************************)
(* Bundles.  A bundle is the sequence of its files, <<path, content>>; the *)
(* content tells what was fetched, and by which call.                      *)
(***************************************************************************)
Manifest == Plain(<<"manifest">>, "json")
Body(url, call) == [kind |-> "body", url |-> url, call |-> call]

\* Mutant: no name is taken when the first asset comes.
NothingUsed(page) == {}

\* The page's own name and the manifest's are taken.
UsedNames(page) == {PageName(page), Manifest}

\* Stylesheets first, then scripts, then images; each URL once.
Discovered(urls, el, tag) ==
  IF el.tag = tag /\ el.url /= NoUrl /\ el.url \notin Range(urls)
    THEN Append(urls, el.url) ELSE urls
Selected(urls, elements, tag) ==
  LET after[n \in 0 .. Len(elements)] ==
        IF n = 0 THEN urls ELSE Discovered(after[n - 1], elements[n], tag)
  IN  after[Len(elements)]
DiscoverAssetUrls(elements) ==
  Selected(Selected(Selected(<<>>, elements, "stylesheet"), elements, "script"), elements, "img")
Assets(page) == IF page.html THEN DiscoverAssetUrls(page.elements) ELSE <<>>

\* One asset after the other.
NoAssets(page) == [used |-> UsedNames(page), fetched |-> <<>>, skipped |-> {}, failed |-> {}]
FetchAsset(got, url, allowlist, failing) ==
  LET name == AssetFilename(url, got.used) IN
  CASE ~DomainAllowed(allowlist, url.host) -> [got EXCEPT !.skipped = @ \cup {url}]
    [] DomainAllowed(allowlist, url.host) /\ url \in failing -> [got EXCEPT !.failed = @ \cup {url}]
    [] OTHER -> [got EXCEPT !.used = @ \cup {name},
                            !.fetched = Append(@, [url |-> url, name |-> name])]
AssetsOf(page, allowlist, failing) ==
  LET urls == Assets(page)
      got[n \in 0 .. Len(urls)] ==
        IF n = 0 THEN NoAssets(page) ELSE FetchAsset(got[n - 1], urls[n], allowlist, failing)
  IN  got[Len(urls)]

\* The files in the order they are written: page, assets, manifest.
Bundle(page, allowlist, failing, call) ==
  LET dir == BundleDir(page.url)
      got == AssetsOf(page, allowlist, failing)
      saved == [n \in DOMAIN got.fetched |->
                  <<Append(dir, got.fetched[n].name), Body(got.fetched[n].url, call)>>]
      manifest == [kind |-> "manifest", source |-> page, call |-> call,
                   saved_to |-> Append(dir, PageName(page)),
                   assets |-> {[url |-> got.fetched[n].url,
                                saved_to |-> Append(dir, got.fetched[n].name)]
                                 : n \in DOMAIN got.fetched},
                   skipped |-> got.skipped, failed |-> got.failed]
  IN  <<<<Append(dir, PageName(page)), Body(page.url, call)>>>> \o saved
        \o <<<<Append(dir, Manifest), manifest>>>>
=============================================================================
