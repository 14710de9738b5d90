----------------------------- MODULE DocPages -----------------------------
(***************************************************************************)
(* The documentation pages (docs.py and their routes in app.py): markdown  *)
(* files below docs_directory() are served under /doc/, and the relative   *)
(* links between them are rewritten when a page is rendered.  A path is a  *)
(* sequence of segments, as in Paths; only slashes separate here, and the  *)
(* last segment carries the ".md".                                         *)
(***************************************************************************)
EXTENDS Paths

CONSTANTS
    DocsHome,    \* the place of docs_directory() in the file system
    DocFiles,    \* its markdown files, relative to it
    OtherFiles,  \* places of other markdown files on the host
    Hrefs,       \* relative links that end in ".md", as pages spell them
    Index        \* the page /doc/

\* The documentation is not the whole file system; ".md" ends the last segment of a link.
ASSUME DocPagesAssumption ==
    /\ DocsHome \in Seq(Segments) \ {<<>>}
    /\ DocFiles \subseteq Seq(Segments) \ {<<>>}
    /\ Hrefs \subseteq Seq(Segments) \ {<<>>}
    /\ \A h \in Hrefs : Last(h) \notin {Empty} \cup Dots
    /\ \A f \in DocFiles : Clean(f)
    /\ \A f \in OtherFiles : ~IsPrefix(DocsHome, f)
    /\ Index \notin DocFiles

VARIABLE page   \* the page the reader is on

\* The files a path relative to docs_directory() may name.
Exists(path) ==
    LET place == Walk(DocsHome, path)
    IN  place \in OtherFiles \cup {DocsHome \o f : f \in DocFiles}

\* is_safe_doc_path
IsSafeDocPath(path) == path # <<>> /\ Clean(path)

\* One more part of a relative path; None once ".." leads out of the top directory.
AddPart(parts, part) ==
    CASE parts = NoPath -> NoPath
      [] parts # NoPath /\ part \in {Empty, "."} -> parts
      [] parts # NoPath /\ part = ".." -> IF parts = <<>> THEN NoPath ELSE Front(parts)
      [] OTHER -> Append(parts, part)

\* _normalize_relative_path
NormalizeRelativePath(dir, href) ==
    LET joined == dir \o href
        parts[i \in 0 .. Len(joined)] ==
            IF i = 0 THEN <<>> ELSE AddPart(parts[i - 1], joined[i])
        path == parts[Len(joined)]
    IN  IF path # NoPath /\ IsSafeDocPath(path) THEN path ELSE NoPath

\* Mutant: links are taken relative to the top directory, whatever page they are on.
RewriteFromTop(current, href) == NormalizeRelativePath(<<>>, href)

\* rewrite_doc_links, for one link: the path below /doc/, or NoPath when the link is
\* left alone.
RewriteDocLink(current, href) == NormalizeRelativePath(Front(current), href)

\* read_markdown: a page, or None and 404.
Served(path) == IsSafeDocPath(path) /\ Exists(path)

\* A path typed into the browser, after decode_doc_path; blank redirects to the index.
Visit(path) ==
    /\ page' = IF Blank(path) THEN Index ELSE path
    /\ Blank(path) \/ Served(path)

\* The index links to _DOC_PAGES.
FollowCard ==
    /\ page = Index
    /\ page' \in DocFiles

FollowLink(href) ==
    /\ page # Index
    /\ page' = RewriteDocLink(page, href)
    /\ page' # NoPath /\ Served(page')

DocInit == PathsInit /\ page = Index

DocNext ==
    \/ PathsNext /\ UNCHANGED page
    \/ /\ \/ FollowCard
          \/ \E path \in Names : Visit(path)
          \/ \E href \in Hrefs : FollowLink(href)
       /\ UNCHANGED stored

DocSpec == DocInit /\ [][DocNext]_<<stored, page>>
-----------------------------------------------------------------------------
\* A link that is rewritten leads to the file that its author meant, the one the link
\* leads to from the file it stands in; it is left alone only when it leads out of
\* the documentation on its way.
LinksKeepTheirMeaning ==
    page # Index =>
        \A href \in Hrefs :
            LET path == RewriteDocLink(page, href)
                meant == Walk(DocsHome \o Front(page), href)
            IN  IF path # NoPath THEN DocsHome \o path = meant
                ELSE \E i \in 0 .. Len(href) :
                         ~IsPrefix(DocsHome, Walk(DocsHome \o Front(page), SubSeq(href, 1, i)))
=============================================================================
