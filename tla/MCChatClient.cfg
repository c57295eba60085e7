CONSTANTS
  c1 = c1
  c2 = c2
  c3 = c3
  tea = tea
  code = code
  hello = hello
  again = again
  Home = Home
  New = New
  None = None
  Conversations <- MCConversations
  Titles <- MCTitles
  Title <- MCTitle
  Early <- MCEarly
  Texts <- MCTexts
  Text <- MCText
  MaxTurns = 2
  MaxActs = 3
  MaxAwaited = 1
SPECIFICATION Spec
INVARIANTS
  TypeOK
  MessagesStayHome
  AnswersFindTheirQuestion
  PageShowsItsAddress
CHECK_DEADLOCK FALSE
