---------------------------- MODULE ProfileLinks ----------------------------
(***************************************************************************)
(* The links of one profile: renown_upsertProfile works out the actions    *)
(* that turn the document's links into the wanted ones, the reducer        *)
(* applies them, and the processor applies each again to the read model's  *)
(* copy (renown_user.links), in batches that may be delivered again.       *)
(***************************************************************************)
EXTENDS SequencesExt, Naturals

CONSTANTS LinkId, LinkText,
          MaxLinks,        \* MAX_LINKS
          MaxPatches,      \* bound: upserts of a behaviour
          MaxRedeliveries  \* bound: how often a batch is delivered again

VARIABLES
  links,      \* the document's, in order
  indexed,    \* the read model's
  wanted,     \* what the latest upsert asked for (history)
  unread,     \* its actions, until the processor has acknowledged them
  reading,    \* the next of them to apply
  patches, redeliveries

linkVars == <<links, indexed, wanted, unread, reading, patches, redeliveries>>

Lists ==
  { list \in UNION { [1..n -> [id : LinkId, text : LinkText]] : n \in 0..MaxLinks } :
      \A i, j \in DOMAIN list : list[i].id = list[j].id => i = j }

Ids(list) == [i \in DOMAIN list |-> list[i].id]
With(list, id) == SelectSeq(list, LAMBDA link : link.id = id)
Without(list, ids) == SelectSeq(list, LAMBDA link : link.id \notin ids)

\* The links after an action: what nextLinks makes of the read model's copy.
NextLinks(list, action) ==
  CASE action.type = "ADD_LINK" -> Append(list, action.link)
    [] action.type = "UPDATE_LINK" ->
         [i \in DOMAIN list |-> IF list[i].id = action.link.id THEN action.link ELSE list[i]]
    [] action.type = "REMOVE_LINK" -> Without(list, {action.link.id})
    [] action.type = "REORDER_LINKS" ->
         FlattenSeq([i \in DOMAIN action.ids |-> With(list, action.ids[i])])
           \o Without(list, Range(action.ids))

\* What the reducer refuses; an action it accepts has the effect above.
Accepted(list, action) ==
  CASE action.type = "ADD_LINK" ->
         action.link.id \notin Range(Ids(list)) /\ Len(list) < MaxLinks
    [] action.type = "REORDER_LINKS" -> Range(action.ids) \subseteq Range(Ids(list))
    [] OTHER -> action.link.id \in Range(Ids(list))

Action(type, link) == [type |-> type, link |-> link, ids |-> <<>>]

\* Mutant: the order is not looked at.
UnorderedLinkActions(current, desired) ==
  LET isWanted(link) == link.id \in Range(Ids(desired))
      touched == SelectSeq(current, LAMBDA link : ~isWanted(link) \/ link \notin Range(desired))
      added == Without(desired, Range(Ids(current)))
      touch(link) == IF isWanted(link) THEN Action("UPDATE_LINK", With(desired, link.id)[1])
                                       ELSE Action("REMOVE_LINK", link)
  IN  [i \in DOMAIN touched |-> touch(touched[i])]
        \o [i \in DOMAIN added |-> Action("ADD_LINK", added[i])]

\* linkActions: removals and updates in one pass, then additions, then the order.
LinkActions(current, desired) ==
  LET isWanted(link) == link.id \in Range(Ids(desired))
      touched == SelectSeq(current, LAMBDA link : ~isWanted(link) \/ link \notin Range(desired))
      added == Without(desired, Range(Ids(current)))
      kept == Ids(SelectSeq(current, isWanted) \o added)
      touch(link) == IF isWanted(link) THEN Action("UPDATE_LINK", With(desired, link.id)[1])
                                       ELSE Action("REMOVE_LINK", link)
  IN  [i \in DOMAIN touched |-> touch(touched[i])]
        \o [i \in DOMAIN added |-> Action("ADD_LINK", added[i])]
        \o (IF kept # Ids(desired)
              THEN <<[type |-> "REORDER_LINKS", link |-> desired[1], ids |-> Ids(desired)]>>
              ELSE <<>>)

LinkInit ==
  /\ links = <<>> /\ indexed = <<>> /\ wanted = <<>>
  /\ unread = <<>> /\ reading = 1
  /\ patches = 0 /\ redeliveries = 0

\* The reducer, action by action; a refused one changes nothing and is not indexed.
Apply(before, action) ==
  IF Accepted(before.links, action)
    THEN [links |-> NextLinks(before.links, action), log |-> Append(before.log, action)]
    ELSE before

UpsertLinks(desired) ==
  /\ patches < MaxPatches /\ unread = <<>>
  /\ LET after == FoldLeft(Apply, [links |-> links, log |-> <<>>], LinkActions(links, desired))
     IN  links' = after.links /\ unread' = after.log
  /\ wanted' = desired
  /\ reading' = 1 /\ patches' = patches + 1
  /\ UNCHANGED <<indexed, redeliveries>>

IndexLinks ==
  /\ reading <= Len(unread)
  /\ indexed' = NextLinks(indexed, unread[reading])
  /\ reading' = reading + 1
  /\ UNCHANGED <<links, wanted, unread, patches, redeliveries>>

\* a dropped connection or a stop before the acknowledgement: the whole batch again
RedeliverLinks ==
  /\ redeliveries < MaxRedeliveries /\ unread # <<>>
  /\ reading' = 1 /\ redeliveries' = redeliveries + 1
  /\ UNCHANGED <<links, indexed, wanted, unread, patches>>

AcknowledgeLinks ==
  /\ unread # <<>> /\ reading > Len(unread)
  /\ unread' = <<>>
  /\ UNCHANGED <<links, indexed, wanted, reading, patches, redeliveries>>

LinkNext ==
  \/ \E desired \in Lists : UpsertLinks(desired)
  \/ IndexLinks \/ RedeliverLinks \/ AcknowledgeLinks

LinkSpec == LinkInit /\ [][LinkNext]_linkVars

\* Whatever links a profile has, the actions worked out for it reach exactly the wanted
\* ones, in the wanted order, and the reducer refuses none of them on the way, not even
\* at the limit.
UpsertReachesTheLinks == links = wanted
==============================================================================
