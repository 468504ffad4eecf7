-------------------------- MODULE ImageResolution --------------------------
(***************************************************************************)
(* The image a NodeClass stands for (pkg/providers/common/image/           *)
(* resolver.go), as pure operators on the images of a region.  A name is   *)
(* the sequence of its tokens between hyphens, so that a pattern begins    *)
(* and ends at a hyphen; case is left out.  Every image has a name, an ID  *)
(* and a creation time.  sort.Slice is not stable, so an operator returns  *)
(* the set of its possible results, empty when the code returns an error.  *)
(***************************************************************************)
EXTENDS Integers, Sequences, SequencesExt

CONSTANTS
  Atoi,     \* the number that each token of digits stands for
  Letters,  \* tokens of lower case letters
  Regions   \* tokens of an r and digits, with which image IDs begin

Digits == DOMAIN Atoi

Holds(s, t) == \E i \in 0..(Len(s) - Len(t)) : SubSeq(s, i + 1, i + Len(t)) = t

isImageID(identifier) == Len(identifier) >= 6 /\ Head(identifier) \in Regions

\* A wildcard stands for what is before, behind or on both sides of the rest.
matchesPattern(name, pattern) ==
  LET opens == Head(pattern) = "*"
      closes == Last(pattern) = "*"
  IN  \/ pattern = <<"*">>
      \/ Len(pattern) > 1 /\ opens /\ closes /\ Holds(name, Front(Tail(pattern)))
      \/ opens /\ ~closes /\ IsSuffix(Tail(pattern), name)
      \/ ~opens /\ closes /\ IsPrefix(Front(pattern), name)

matchesImageName(name, pattern) ==
  Holds(name, pattern) \/ ("*" \in ToSet(pattern) /\ matchesPattern(name, pattern))

\* Public images first, private ones if none of those matches.
PublicFirst(public, private) == IF public # {} THEN public ELSE private

resolveImageByName(pattern, images) ==
  LET matching(v) == {i \in images : i.visibility = v /\ matchesImageName(i.name, pattern)}
      candidates == PublicFirst(matching("public"), matching("private"))
  IN  {i.id : i \in {c \in candidates : \A d \in candidates : d.created <= c.created}}

ResolveImage(identifier, images) ==
  IF isImageID(identifier)
  THEN {i.id : i \in images} \cap {identifier}
  ELSE resolveImageByName(identifier, images)

-----------------------------------------------------------------------------
Components(os, major, minor, patch, variant, arch, build) ==
  [parsed |-> TRUE, os |-> os, major |-> major, minor |-> minor, patch |-> patch,
   variant |-> variant, arch |-> arch, build |-> build]

\* What a name tells, in the first of four formats that it has.
parseImageName(name) ==
  LET Has(kinds) == Len(name) = Len(kinds) /\ \A k \in DOMAIN kinds : name[k] \in kinds[k]
      any == ToSet(name)
      ibm == <<{"ibm"}, Letters, Digits, Digits>>
  IN  IF Has(ibm \o <<Digits, Letters, any, Digits>>)
      THEN Components(name[2], name[3], name[4], name[5], name[6], name[7], name[8])
      ELSE IF Has(ibm \o <<Letters, any, Digits>>)
      THEN Components(name[2], name[3], name[4], "0", name[5], name[6], name[7])
      ELSE IF Has(ibm \o <<any, Digits>>)
      THEN Components(name[2], name[3], name[4], "0", "minimal", name[5], name[6])
      ELSE IF Has(<<Letters, Digits, Digits>>)
      THEN Components(name[1], name[2], name[3], "0", "minimal", "amd64", "1")
      ELSE [parsed |-> FALSE]

\* selector: [os, major, minor, arch, variant], of which the last three may be "".
imageMatchesSelector(i, selector) ==
  LET c == parseImageName(i.name) IN
  /\ c.parsed
  /\ c.os = selector.os /\ c.major = selector.major
  /\ selector.minor \in {"", c.minor}
  /\ c.arch = IF selector.arch = "" THEN "amd64" ELSE selector.arch
  /\ selector.variant \in {"", c.variant}

usable(i) == i.status \in {"available", "deprecated"}

listImagesByVisibility(visibility, images) == {i \in images : i.visibility = visibility /\ usable(i)}

filterImagesBySelector(images, selector) == {i \in images : imageMatchesSelector(i, selector)}

rankByBuild(i, selector) ==
  LET c == parseImageName(i.name)
  IN  <<IF selector.minor = "" THEN Atoi[c.minor] ELSE 0, Atoi[c.build], Atoi[c.patch], i.created>>

\* What images are compared by, the most significant first.
Rank(i, selector) ==
  LET c == parseImageName(i.name)
  IN  <<IF selector.minor = "" THEN Atoi[c.minor] ELSE 0, Atoi[c.patch], Atoi[c.build], i.created>>

Above(a, b) == \E k \in DOMAIN a : a[k] > b[k] /\ \A j \in 1..(k - 1) : a[j] = b[j]

\* The images that may come first in the sorted list.
sortImagesByVersion(images, selector) ==
  {i \in images : \A j \in images : ~Above(Rank(j, selector), Rank(i, selector))}

ResolveImageBySelector(selector, images) ==
  LET matching(v) == filterImagesBySelector(listImagesByVisibility(v, images), selector)
      candidates == PublicFirst(matching("public"), matching("private"))
  IN  {i.id : i \in sortImagesByVersion(candidates, selector)}
=============================================================================
