CONSTANTS
    None = None
    NotSet = NotSet
    Capacity = 90
    r1 = r1
    r2 = r2
    Decisions = {1, 2}
    Lasting = {1}
    Requests = {r1, r2}
SPECIFICATION FeedSpec
INVARIANT PanelIsSound
INVARIANT AdviceCanBeFollowed
PROPERTY ClosedStaysClosed
PROPERTY RecurringIssueReturns
