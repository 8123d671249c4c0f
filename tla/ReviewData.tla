----------------------------- MODULE ReviewData -----------------------------
(***************************************************************************)
(* What an upload makes of the rows of a CSV file, and what filters, views *)
(* and pages select of them.  A text is the set of the words in it; of a   *)
(* data frame there are its rows and whether it has its columns, which     *)
(* indexing with an empty mask of objects loses.                           *)
(***************************************************************************)
EXTENDS Naturals, Sequences, FiniteSets

CONSTANTS
  Storage,     \* "memory" or "database"
  Category,    \* the categories of ISSUE_KEYWORDS, in their order
  Keywords,    \* Keywords[c]: words that make a review one of category c
  Strip,       \* Strip[t]: a text with blanks around it, without them
  FloatText,   \* FloatText[t]: what a cell of digits reads as once it is a float
  PageSize,    \* limit of a search
  PreviewRows, \* rows of a list in a summary
  None

ASSUME ReviewDataAssumption ==
  /\ Storage \in {"memory", "database"}
  /\ Category \in Seq(STRING \ {"other"})
  /\ \A i, j \in 1..Len(Category) : i # j => Category[i] # Category[j]
  /\ PageSize \in Nat \ {0} /\ PreviewRows \in Nat \ {0}

View == {"all", "high_risk", "rating_sentiment_mismatch"}

LowSentiment == 30
HighSeverity == 20

\* Op(value), for which TLC computes the value once.
Once(value, Op(_)) == CHOOSE y \in {Op(v) : v \in {value}} : TRUE

\* The elements of s at the positions of the set at, in their order.
Taken(s, at) ==
  LET n == Cardinality(at)
  IN  SubSeq([k \in 1..n |->
        s[CHOOSE i \in at : Cardinality({j \in at : j <= i}) = k]], 1, n)

\* SelectSeq.
Selected(seq, Test(_)) ==
  LET of(s) == Taken(s, {i \in 1..Len(s) : Test(s[i])})
  IN  Once(seq, of)

\* SortSeq, by an order in which no two of the elements are equal.
Sorted(seq, Before(_, _)) ==
  LET of(s) ==
        LET place(i) == Cardinality({j \in 1..Len(s) : Before(s[j], s[i])})
        IN  SubSeq([k \in 1..Len(s) |->
              s[CHOOSE i \in 1..Len(s) : place(i) = k - 1]], 1, Len(s))
  IN  Once(seq, of)

Stripped(text) == IF text \in DOMAIN Strip THEN Strip[text] ELSE text

-----------------------------------------------------------------------------
(* Reading the file.  Ratings are in tenths; a rating, a version or a day  *)
(* that is missing, or not read as one, is None.                           *)

\* SnowNLP's score, and 50 for a text it cannot score.
Sentiment(row) == IF row.sentiment = None THEN 50 ELSE row.sentiment

\* A column of numbers stays one if nothing else is in it.
VersionType(file) ==
  IF \E i \in 1..Len(file) : file[i].version # None /\ ~file[i].version.number
  THEN "text" ELSE "number"

\* A number loses the zeros that ended it.
Version(file, row) ==
  IF row.version = None THEN None
  ELSE [type |-> VersionType(file),
        text |-> IF VersionType(file) = "number" THEN FloatText[row.version.text]
                 ELSE row.version.text]

\* read_csv and preprocess_reviews.
Processed(file) ==
  [i \in 1..Len(file) |->
     [row |-> i, rating |-> file[i].rating, content |-> file[i].content,
      sentiment |-> Sentiment(file[i]), version |-> Version(file, file[i]),
      day |-> file[i].day]]

-----------------------------------------------------------------------------
(* prepare_dashboard_data *)

BlankContent(row) == row.content = {}

\* The rows that it keeps.
Kept(row) == ~BlankContent(row) /\ row.rating # None /\ row.rating \in 10..50

\* The first category with a keyword in the text.
Classify(content) ==
  LET hit == {i \in 1..Len(Category) :
                Keywords[Category[i]] \cap content # {}}
  IN  IF hit = {} THEN "other"
      ELSE Category[CHOOSE i \in hit : \A j \in hit : i <= j]

\* A sentiment of 0 is false, so that "or" makes it 50.
Labels(rating, score) ==
  LET sentiment == IF score = 0 THEN 50 ELSE score
  IN  {l \in {"low_rating", "extreme", "mismatch"} :
         \/ l = "low_rating" /\ rating <= 20
         \/ l = "extreme" /\ sentiment <= HighSeverity
         \/ l = "mismatch" /\ rating >= 40 /\ sentiment < LowSentiment}

Labelled(r) ==
  [row |-> r.row, rating |-> r.rating, content |-> r.content,
   sentiment |-> r.sentiment, version |-> r.version, day |-> r.day,
   category |-> Classify(r.content), labels |-> Labels(r.rating, r.sentiment)]

Prepare(rows) ==
  LET kept == Selected(rows, Kept)
  IN  [k \in 1..Len(kept) |-> Labelled(kept[k])]

-----------------------------------------------------------------------------
(* Upload *)

Prepared(file) == Prepare(Processed(file))

\* Mutant: only ratings that are no numbers are counted.
InvalidRating_Nan(row) == row.rating = None

\* The rows that are counted as invalid_rating, by a condition of its own.
InvalidRating(row) == row.rating = None \/ row.rating \notin 10..50

CountRows(file, Test(_)) == Cardinality({i \in 1..Len(file) : Test(file[i])})

Stats(file) ==
  [original |-> Len(file), valid |-> Len(Prepared(file)),
   removed |-> Len(file) - Len(Prepared(file)),
   invalidRating |-> CountRows(file, InvalidRating),
   emptyContent |-> CountRows(file, BlankContent)]

\* The frame a store returns: from no records the database builds no columns.
Stored(file) ==
  [columns |-> Storage = "memory" \/ Prepared(file) # <<>>,
   rows |-> Prepared(file)]

-----------------------------------------------------------------------------
(* Filters and views *)

IsHighRisk(review) == review.labels # {}

IsMismatch(review) == review.rating >= 40 /\ review.sentiment < LowSentiment

\* Mutant: no review of high risk is as bad as no review.
HighRiskOf_NoneLeft(frame) ==
  LET rows == Selected(frame.rows, IsHighRisk)
  IN  [columns |-> rows # <<>>, rows |-> rows]

\* frame[frame[RISK_LABEL].apply(is_high_risk_label)]
HighRiskOf(frame) ==
  [columns |-> frame.rows # <<>>, rows |-> Selected(frame.rows, IsHighRisk)]

\* ReviewFilters: categories and keyword without blanks.
Categories(f) == {Stripped(c) : c \in {f.categories[i] : i \in DOMAIN f.categories}}
                   \ {""}

\* apply_filters: no categories are all of them.
FilterReviews(frame, f) ==
  LET keyword == Stripped(f.keyword)
      kept(r) == /\ r.rating \in f.ratings[1]..f.ratings[2]
                 /\ r.sentiment \in f.sentiments[1]..f.sentiments[2]
                 /\ Categories(f) = {} \/ r.category \in Categories(f)
                 /\ keyword = "" \/ keyword \in r.content
      within == [frame EXCEPT !.rows = Selected(@, kept)]
  IN  IF frame.rows # <<>> /\ f.highRiskOnly THEN HighRiskOf(within)
      ELSE within

\* Stable orders: low rating, low sentiment; low sentiment, high rating.
RiskOrder(r, s) ==
  \/ r.rating < s.rating
  \/ r.rating = s.rating /\ r.sentiment < s.sentiment
  \/ r.rating = s.rating /\ r.sentiment = s.sentiment /\ r.row < s.row

MismatchOrder(r, s) ==
  \/ r.sentiment < s.sentiment
  \/ r.sentiment = s.sentiment /\ r.rating > s.rating
  \/ r.sentiment = s.sentiment /\ r.rating = s.rating /\ r.row < s.row

\* Mutant: the search includes the threshold that the summary excludes.
ViewOf_Inclusive(frame, view) ==
  LET low(r) == r.rating >= 40 /\ r.sentiment <= LowSentiment
  IN  CASE view = "high_risk" -> Sorted(HighRiskOf(frame).rows, RiskOrder)
        [] view = "rating_sentiment_mismatch" ->
             Sorted(Selected(frame.rows, low), MismatchOrder)
        [] view = "all" -> frame.rows

\* The reviews of a view in their order.
ViewOf(frame, view) ==
  CASE view = "high_risk" -> Sorted(HighRiskOf(frame).rows, RiskOrder)
    [] view = "rating_sentiment_mismatch" ->
         Sorted(Selected(frame.rows, IsMismatch), MismatchOrder)
    [] view = "all" -> frame.rows

Prefix(s, n) == SubSeq(s, 1, IF n < Len(s) THEN n ELSE Len(s))

\* The response models want a version to be a string or null.
Shows(reviews) ==
  \A i \in 1..Len(reviews) :
    reviews[i].version = None \/ reviews[i].version.type = "text"

NextOffset(offset, items, total) ==
  IF offset + Len(items) < total THEN offset + Len(items) ELSE None

\* search_reviews; None is an exception: a missing column, or a version.
Search(frame, view, offset) ==
  LET answer(reviews) ==
        LET total == Len(reviews)
            items == Prefix(SubSeq(reviews, offset + 1, total), PageSize)
        IN  IF \/ ~frame.columns
               \/ view = "high_risk" /\ ~HighRiskOf(frame).columns
               \/ ~Shows(items)
            THEN None
            ELSE [items |-> items, total |-> total, view |-> view,
                  offset |-> offset, next |-> NextOffset(offset, items, total)]
  IN  Once(ViewOf(frame, view), answer)

\* The parts of build_summary that the page shows beside the review pool.
Summary(frame) ==
  LET previews == {Prefix(ViewOf(frame, v), PreviewRows) : v \in View}
  IN  IF \/ ~frame.columns \/ ~HighRiskOf(frame).columns
         \/ \E p \in previews : ~Shows(p)
      THEN None
      ELSE [all |-> Len(frame.rows),
            high_risk |-> Len(HighRiskOf(frame).rows),
            rating_sentiment_mismatch |-> Len(Selected(frame.rows, IsMismatch))]
=============================================================================
