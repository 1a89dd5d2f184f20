--------------------------- MODULE MCLinkCommands ---------------------------
(* Small instances of LinkCommands for TLC. *)
EXTENDS LinkCommands, TLC

CONSTANTS s1, s2, reserved, i1, i2, t1, l1, l2

OneSlug == {s1}
TwoSlugs == {s1, s2}
OneSlugNames == {s1, reserved}
TwoSlugNames == {s1, s2, reserved}
TwoValid == {s1, s2, reserved}
ReservedNames == {reserved}
OneId == {i1}
TwoIds == {i1, i2}
OneTarget == {t1}
OneLabel == {l1}
TwoLabels == {l1, l2}

Windows == {<<0, 1>>, <<1, 1>>}

command(slug, expires_at, enabled, labels, redirect_type) ==
    [slug |-> slug, target_url |-> t1, expires_at |-> expires_at, enabled |-> enabled,
     labels |-> labels, redirect_type |-> redirect_type]

\* A plain link, one that expires, one that starts disabled, a generated slug,
\* and one request for each refusal.
OneSlugCommands ==
    {command(s1, Absent, Absent, l1, Absent), command(s1, 1, TRUE, l1, "permanent"),
     command(s1, Absent, FALSE, l1, Absent), command(Absent, Absent, Absent, l1, Absent),
     command(reserved, Absent, Absent, l1, Absent),
     command(Absent, Absent, Absent, BadLabels, Absent)}

TwoSlugCommands ==
    {command(s, Absent, Absent, l1, Absent) : s \in {s1, s2, Absent, reserved}}

patch(enabled, expires_at, labels) ==
    [enabled |-> enabled, expires_at |-> expires_at, labels |-> labels]

OneSlugPatches ==
    {patch(TRUE, Absent, Absent), patch(FALSE, Null, Absent), patch(Absent, 1, Absent)}

TwoSlugPatches == {patch(Absent, Absent, l2), patch(FALSE, Absent, l1)}

\* Slugs that can be created are interchangeable, and so are ids.
SlugIdSymmetry == Permutations(TwoSlugs) \cup Permutations(TwoIds)
=============================================================================
